---- MODULE Spec2Model ----
(***************************************************************************)
(* Model of the compare-coverage GitHub action (index.js, version 0.0.16). *)
(*                                                                         *)
(* The module holds several specifications over one set of variables:      *)
(*   SpecNormalize  the two path normalisations, applied repeatedly;       *)
(*   SpecLines      calculateFileCoverage on one class element;            *)
(*   SpecDiff       getFilesWithCoverageChanges and the row sort of run(), *)
(*                  over varied coverage documents;                        *)
(*   SpecOmit       getFilesWithCoverageChanges over varied PR file lists  *)
(*                  and .coveragerc configurations;                        *)
(*   Spec           run() as a step machine, one step per await;           *)
(*   SpecMetrics    getCoverageMetrics, countFiles and the map of files of  *)
(*                  getFilesWithCoverageChanges, on one document.          *)
(* A specification leaves the variables of the others at their idle value. *)
(***************************************************************************)
EXTENDS Integers, Sequences, FiniteSets, TLC

VARIABLES
    nIn, nFn, nFirst, nOut, nSteps,     \* SpecNormalize
    cls, fileCov, lSteps,               \* SpecLines
    baseCoverage, headCoverage,         \* SpecDiff, SpecOmit: the arguments of
    prChangedFiles, coverageRcConfig,   \*   getFilesWithCoverageChanges,
    result, rows, dSteps,               \*   its result and the sorted rows
    pc, failed,                         \* Spec: the position of run(), core.setFailed,
    baseTimestamp, headTimestamp,       \*   the latest timestamp folders,
    message, botComment,                \*   the comment body, the comment found,
    comments, calls,                    \*   the comments of the pull request, the
    nDownloads, nParses, nDiffs,        \*   calls of the comment API, counters of
    minCoverage, coverageRcFile,        \*   the work done, the threshold and
    warnings, authorType,               \*   the .coveragerc of the workspace,
                                        \*   the messages of core.warning, the
                                        \*   account type of github_token
    coverageData, docMetrics, fileCount,\* SpecMetrics: a parsed document, its
    docFiles, mSteps,                   \*   metrics, its file count and its
    minCoverageInput, threshold         \*   map of files, the min_coverage
                                        \*   input and the threshold check

normVars == <<nIn, nFn, nFirst, nOut, nSteps>>

lineVars == <<cls, fileCov, lSteps>>

diffVars == <<baseCoverage, headCoverage, prChangedFiles, coverageRcConfig,
              result, rows, dSteps>>

runVars == <<pc, failed, baseTimestamp, headTimestamp, message, botComment,
             comments, calls, nDownloads, nParses, nDiffs, minCoverage, coverageRcFile,
             warnings, authorType>>

metricVars == <<coverageData, docMetrics, fileCount, docFiles, mSteps,
                minCoverageInput, threshold>>

vars == <<nIn, nFn, nFirst, nOut, nSteps, cls, fileCov, lSteps,
          baseCoverage, headCoverage, prChangedFiles, coverageRcConfig,
          result, rows, dSteps,
          pc, failed, baseTimestamp, headTimestamp, message, botComment,
          comments, calls, nDownloads, nParses, nDiffs, minCoverage, coverageRcFile,
          warnings, authorType, coverageData, docMetrics, fileCount, docFiles, mSteps,
          minCoverageInput, threshold>>

(***************************************************************************)
(* Paths.  A path string is modelled by its segments and its separator:    *)
(* segs is the sequence of the parts between separators, win is TRUE when  *)
(* the separators are backslashes.  A path of one segment has no separator *)
(* and is kept with win = FALSE.                                           *)
(***************************************************************************)
MaxPrefixLen == 2

PrefixSegs == {"python_coverage", "src", ".", "tests"}

FileSegs == {"a.py", "notes.txt"}

RECURSIVE SeqsUpTo(_, _)
SeqsUpTo(S, n) ==
    IF n = 0 THEN {<<>>}
    ELSE LET shorter == SeqsUpTo(S, n - 1)
         IN  shorter \cup {<<x>> \o s : x \in S, s \in {t \in shorter : Len(t) = n - 1}}

MkPath(segs, win) == [segs |-> segs, win |-> win /\ Len(segs) > 1]

NoPath == MkPath(<<>>, FALSE)

PathDomain ==
    {MkPath(pre \o <<f>>, w) : pre \in SeqsUpTo(PrefixSegs, MaxPrefixLen),
                               f \in FileSegs, w \in BOOLEAN}

\* path.replace(/^<seg>\//, ''): the prefix is removed when the path starts with
\* the segment followed by a forward slash.
StripPrefix(p, seg) ==
    IF Len(p.segs) > 1 /\ ~p.win /\ p.segs[1] = seg
    THEN MkPath(Tail(p.segs), FALSE)
    ELSE p

\* path.replace(/\\/g, '/')
ToUnix(p) == [p EXCEPT !.win = FALSE]

normalizePath(p) == StripPrefix(p, "python_coverage")

\* The normalisation matchesOmitPattern applies to the file name before matching.
normalizedFilename(p) ==
    StripPrefix(StripPrefix(StripPrefix(ToUnix(p), "python_coverage"), "src"), ".")

ApplyNormalizer(fn, p) ==
    IF fn = "normalizePath" THEN normalizePath(p) ELSE normalizedFilename(p)

IdleNormalize ==
    /\ nIn = NoPath
    /\ nFn = "normalizePath"
    /\ nFirst = NoPath
    /\ nOut = NoPath
    /\ nSteps = 0

(***************************************************************************)
(* Class elements.  A class element of a parsed document has a filename    *)
(* and the list of its line elements, each with the parsed number and hits *)
(* attributes; lines = <<>> stands for a class without a lines child (or   *)
(* with an empty one), for which cls.lines?.[0]?.line is undefined.        *)
(***************************************************************************)
\* parseInt of a non-numeric attribute: NaN, for which both "> 0" and "=== 0"
\* are false.  It is modelled by a negative number, for which they are false too.
NaN == -1

MaxLineNo == 4

MaxLines == 3

HitValues == {0, 1, NaN}

LineElems == [number : 1..MaxLineNo, hits : HitValues]

\* lines.filter(line => parseInt(line.$.hits) > 0).length
RECURSIVE CountCovered(_)
CountCovered(lines) ==
    IF lines = <<>> THEN 0
    ELSE (IF Head(lines).hits > 0 THEN 1 ELSE 0) + CountCovered(Tail(lines))

\* lines.filter(line => parseInt(line.$.hits) === 0).map(line => parseInt(line.$.number))
RECURSIVE ZeroHitLines(_)
ZeroHitLines(lines) ==
    IF lines = <<>> THEN <<>>
    ELSE (IF Head(lines).hits = 0 THEN <<Head(lines).number>> ELSE <<>>)
         \o ZeroHitLines(Tail(lines))

\* Array.prototype.sort((a, b) => a - b): each number is inserted after the
\* numbers that are not greater.
RECURSIVE InsertNumber(_, _)
InsertNumber(x, s) ==
    IF s = <<>> THEN <<x>>
    ELSE IF x < Head(s) THEN <<x>> \o s
    ELSE <<Head(s)>> \o InsertNumber(x, Tail(s))

RECURSIVE SortNumbers(_)
SortNumbers(s) ==
    IF s = <<>> THEN <<>>
    ELSE InsertNumber(s[Len(s)], SortNumbers(SubSeq(s, 1, Len(s) - 1)))

\* The tokens of a missing-lines string: a number, the "-" of a range and the
\* ", " between two ranges.
NumTok(n) == [t |-> "num", n |-> n]
DashTok == [t |-> "-", n |-> 0]
CommaTok == [t |-> ", ", n |-> 0]

\* missingLines.reduce(...): consecutive numbers are grouped into ranges.
RECURSIVE GroupRanges(_, _, _)
GroupRanges(missing, i, acc) ==
    IF i > Len(missing) THEN acc
    ELSE IF i = 1 THEN GroupRanges(missing, i + 1, Append(acc, <<missing[i]>>))
    ELSE IF missing[i] = missing[i - 1] + 1
         THEN GroupRanges(missing, i + 1,
                  [acc EXCEPT ![Len(acc)] = Append(acc[Len(acc)], missing[i])])
    ELSE GroupRanges(missing, i + 1, Append(acc, <<missing[i]>>))

\* range.length === 1 ? `${range[0]}` : `${range[0]}-${range[range.length - 1]}`
FormatRange(range) ==
    IF Len(range) = 1 THEN <<NumTok(range[1])>>
    ELSE <<NumTok(range[1]), DashTok, NumTok(range[Len(range)])>>

\* Array.prototype.join(', ') of the formatted ranges
RECURSIVE JoinRanges(_)
JoinRanges(ranges) ==
    IF ranges = <<>> THEN <<>>
    ELSE IF Len(ranges) = 1 THEN FormatRange(ranges[1])
    ELSE FormatRange(ranges[1]) \o <<CommaTok>> \o JoinRanges(Tail(ranges))

MissingLinesOf(lines) == SortNumbers(ZeroHitLines(lines))

NullCov == [isNull |-> TRUE, covered |-> 0, total |-> 1, missingRanges |-> <<>>]

\* The coverage percentage (covered / lines.length) * 100 is kept as the exact
\* fraction covered / total.
calculateFileCoverage(c) ==
    IF c.lines = <<>> THEN NullCov
    ELSE [isNull |-> FALSE,
          covered |-> CountCovered(c.lines),
          total |-> Len(c.lines),
          missingRanges |-> JoinRanges(GroupRanges(MissingLinesOf(c.lines), 1, <<>>))]

(***************************************************************************)
(* Numbers.  A JavaScript number that is a ratio of small integers is kept *)
(* exactly, as a fraction in lowest terms with a positive denominator, so  *)
(* that equal numbers are equal values.                                    *)
(***************************************************************************)
RECURSIVE GCD(_, _)
GCD(a, b) == IF b = 0 THEN a ELSE GCD(b, a % b)

AbsInt(x) == IF x < 0 THEN -x ELSE x

Frac(n, d) ==
    LET g == GCD(AbsInt(n), d)
    IN  [num |-> n \div g, den |-> d \div g]

Zero == Frac(0, 1)

FracSub(a, b) == Frac(a.num * b.den - b.num * a.den, a.den * b.den)

FracAbs(a) == [num |-> AbsInt(a.num), den |-> a.den]

FracLess(a, b) == a.num * b.den < b.num * a.den

\* (covered / lines.length) * 100
Percent(cov) == Frac(100 * cov.covered, cov.total)

(***************************************************************************)
(* Coverage documents.  A parsed document has a style, "flat" (a classes   *)
(* node under the root), "packaged" (a packages node) or "neither", and    *)
(* the class elements found along the style's path, in document order.     *)
(***************************************************************************)
\* A Map, in insertion order: a sequence of <<key, value>> entries with
\* distinct keys.
MapHas(m, k) == \E i \in DOMAIN m : m[i].key = k

MapGet(m, k) == m[CHOOSE i \in DOMAIN m : m[i].key = k].value

\* Map.prototype.set: a new key is appended, a known key keeps its place.
MapSet(m, k, v) ==
    IF MapHas(m, k)
    THEN [i \in DOMAIN m |-> IF m[i].key = k THEN [key |-> k, value |-> v] ELSE m[i]]
    ELSE Append(m, [key |-> k, value |-> v])

MapKeys(m) == [i \in DOMAIN m |-> m[i].key]

\* classes.forEach(cls => { ... files.set(normalizePath(cls.$.filename), coverage) })
RECURSIVE FilesMap(_, _)
FilesMap(classes, m) ==
    IF classes = <<>> THEN m
    ELSE LET coverage == calculateFileCoverage(Head(classes))
         IN  FilesMap(Tail(classes),
                 IF coverage.isNull THEN m
                 ELSE MapSet(m, normalizePath(Head(classes).filename), coverage))

\* "Process base coverage" and "Process head coverage"
ProcessCoverage(doc) ==
    IF doc.style \in {"flat", "packaged"} THEN FilesMap(doc.classes, <<>>) ELSE <<>>

\* new Set([...baseFiles.keys(), ...headFiles.keys()])
RECURSIVE AddAll(_, _)
AddAll(set, keys) ==
    IF keys = <<>> THEN set
    ELSE AddAll(IF \E i \in DOMAIN set : set[i] = Head(keys)
                THEN set ELSE Append(set, Head(keys)),
                Tail(keys))

AllFiles(baseFiles, headFiles) ==
    AddAll(AddAll(<<>>, MapKeys(baseFiles)), MapKeys(headFiles))

\* A faulty variant of the entry: the base coverage is looked up in the head
\* map.
FileEntryBaseFromHead(baseFiles, headFiles, filename) ==
    LET baseCov == IF MapHas(headFiles, filename)
                   THEN Percent(MapGet(headFiles, filename)) ELSE Zero
        headCov == IF MapHas(headFiles, filename)
                   THEN Percent(MapGet(headFiles, filename)) ELSE Zero
    IN  [filename |-> filename,
         baseCov |-> baseCov,
         headCov |-> headCov,
         change |-> FracSub(headCov, baseCov),
         isNew |-> ~MapHas(baseFiles, filename),
         missingLines |-> IF MapHas(headFiles, filename)
                          THEN MapGet(headFiles, filename).missingRanges ELSE <<>>]

\* The body of allFiles.forEach: the entry of one file name.
FileEntry(baseFiles, headFiles, filename) ==
    LET baseCov == IF MapHas(baseFiles, filename)
                   THEN Percent(MapGet(baseFiles, filename)) ELSE Zero
        headCov == IF MapHas(headFiles, filename)
                   THEN Percent(MapGet(headFiles, filename)) ELSE Zero
    IN  [filename |-> filename,
         baseCov |-> baseCov,
         headCov |-> headCov,
         change |-> FracSub(headCov, baseCov),
         isNew |-> ~MapHas(baseFiles, filename),
         missingLines |-> IF MapHas(headFiles, filename)
                          THEN MapGet(headFiles, filename).missingRanges ELSE <<>>]

\* Math.abs(change) > 0.01
AboveNoise(change) == 100 * AbsInt(change.num) > change.den

\* Faulty variants of the inclusion test: without the isNew case, and without the
\* threshold.
IncludedNoNew(entry) == AboveNoise(entry.change)

\* if (Math.abs(change) > 0.01 || isNew)
Included(entry) == AboveNoise(entry.change) \/ entry.isNew

RECURSIVE CompareCoverages(_, _, _)
CompareCoverages(baseFiles, headFiles, names) ==
    IF names = <<>> THEN <<>>
    ELSE LET entry == FileEntry(baseFiles, headFiles, Head(names))
         IN  (IF Included(entry) THEN <<entry>> ELSE <<>>)
             \o CompareCoverages(baseFiles, headFiles, Tail(names))

(***************************************************************************)
(* The omit filter.  A glob pattern is a path whose segments may be "*"    *)
(* (one segment), "**" (any number of segments) or "*.py".                 *)
(***************************************************************************)
ExtOf(seg) ==
    CASE seg \in {"a.py"} -> "py"
      [] seg \in {"b.js"} -> "js"
      [] seg \in {"c.ts"} -> "ts"
      [] seg \in {"notes.txt"} -> "txt"
      [] OTHER -> ""

SourceExts == {"py", "js", "java", "jsx", "ts", "tsx"}

Last(s) == s[Len(s)]

\* filename.match(/\.(py|js|java|jsx|ts|tsx)$/)
IsSourceFile(p) == ExtOf(Last(p.segs)) \in SourceExts

\* One path segment against one pattern segment (minimatch, dot: true).
SegMatches(seg, pat) ==
    CASE pat = "*" -> seg # "."
      [] pat = "*.py" -> ExtOf(seg) = "py"
      [] OTHER -> seg = pat

\* minimatch on the segments: "**" stands for any number of segments, none
\* included unless it is the last segment of the pattern.
RECURSIVE MatchOne(_, _)
MatchOne(file, pattern) ==
    IF pattern = <<>> THEN file = <<>>
    ELSE IF Head(pattern) = "**"
    THEN IF Len(pattern) = 1
         THEN file # <<>> /\ \A i \in DOMAIN file : file[i] # "."
         ELSE \/ MatchOne(file, Tail(pattern))
              \/ file # <<>> /\ Head(file) # "." /\ MatchOne(Tail(file), pattern)
    ELSE /\ file # <<>>
         /\ SegMatches(Head(file), Head(pattern))
         /\ MatchOne(Tail(file), Tail(pattern))

minimatch(p, pattern) == MatchOne(p.segs, pattern.segs)

\* pattern.replace(/^\*\//g, '**/')
LeadingStar(p) ==
    IF Len(p.segs) > 1 /\ ~p.win /\ p.segs[1] = "*"
    THEN [p EXCEPT !.segs = <<"**">> \o Tail(p.segs)] ELSE p

\* pattern.replace(/\/\*$/g, '/**')
TrailingStar(p) ==
    IF Len(p.segs) > 1 /\ ~p.win /\ Last(p.segs) = "*"
    THEN [p EXCEPT !.segs = SubSeq(p.segs, 1, Len(p.segs) - 1) \o <<"**">>] ELSE p

normalizedPattern(pattern) ==
    StripPrefix(TrailingStar(LeadingStar(StripPrefix(ToUnix(pattern), "."))), "src")

Recursive(pattern) == [pattern EXCEPT !.segs = <<"**">> \o pattern.segs]

\* The callback of omitPatterns.some: the exact match, or the match under a
\* leading **/.
PatternMatches(filename, pattern) ==
    \/ minimatch(normalizedFilename(filename), normalizedPattern(pattern))
    \/ minimatch(normalizedFilename(filename), Recursive(normalizedPattern(pattern)))

\* Array.prototype.some
RECURSIVE SomePattern(_, _)
SomePattern(filename, patterns) ==
    IF patterns = <<>> THEN FALSE
    ELSE PatternMatches(filename, Head(patterns)) \/ SomePattern(filename, Tail(patterns))

\* coverageRcConfig.run?.omit is undefined ("absent"), a string ("string", the
\* empty string included) or an array of patterns ("array").
NoConfig == [shape |-> "absent", text |-> "", omit |-> <<>>]

\* matchesOmitPattern: "true", "false", or "throw" (omitPatterns.some is not a
\* function when omit is a non-empty string).
matchesOmitPattern(filename, config) ==
    CASE config.shape = "absent" -> "false"
      [] config.shape = "string" -> IF config.text = "" THEN "false" ELSE "throw"
      [] OTHER -> IF config.omit = <<>> THEN "false"
                  ELSE IF SomePattern(filename, config.omit) THEN "true" ELSE "false"

\* A faulty variant of the PR pass: the raw file name is looked up and listed.
RECURSIVE ProcessPRRawName(_, _, _, _, _)
ProcessPRRawName(files, baseFiles, headFiles, config, uncovered) ==
    IF files = <<>> THEN [threw |-> FALSE, uncoveredFiles |-> uncovered]
    ELSE IF ~IsSourceFile(Head(files))
    THEN ProcessPRRawName(Tail(files), baseFiles, headFiles, config, uncovered)
    ELSE LET omitted == matchesOmitPattern(normalizePath(Head(files)), config)
         IN  IF omitted = "throw" THEN [threw |-> TRUE, uncoveredFiles |-> uncovered]
             ELSE ProcessPRRawName(Tail(files), baseFiles, headFiles, config,
                      IF omitted = "false"
                         /\ ~MapHas(baseFiles, Head(files)) /\ ~MapHas(headFiles, Head(files))
                      THEN Append(uncovered, Head(files)) ELSE uncovered)

\* prChangedFiles.forEach(({ filename }) => { ... })
RECURSIVE ProcessPRChangedFiles(_, _, _, _, _)
ProcessPRChangedFiles(files, baseFiles, headFiles, config, uncovered) ==
    IF files = <<>> THEN [threw |-> FALSE, uncoveredFiles |-> uncovered]
    ELSE IF ~IsSourceFile(Head(files))
    THEN ProcessPRChangedFiles(Tail(files), baseFiles, headFiles, config, uncovered)
    ELSE LET name == normalizePath(Head(files))
             omitted == matchesOmitPattern(name, config)
         IN  IF omitted = "throw" THEN [threw |-> TRUE, uncoveredFiles |-> uncovered]
             ELSE ProcessPRChangedFiles(Tail(files), baseFiles, headFiles, config,
                      IF omitted = "false"
                         /\ ~MapHas(baseFiles, name) /\ ~MapHas(headFiles, name)
                      THEN Append(uncovered, name) ELSE uncovered)

NoResult == [status |-> "none", changedFiles |-> <<>>, uncoveredFiles |-> <<>>]

\* getFilesWithCoverageChanges: its return value, or, with status "threw", the
\* lists as they are when matchesOmitPattern throws (nothing is returned then).
getFilesWithCoverageChanges(base, head, prFiles, config) ==
    LET baseFiles == ProcessCoverage(base)
        headFiles == ProcessCoverage(head)
        changed == CompareCoverages(baseFiles, headFiles, AllFiles(baseFiles, headFiles))
        pass == ProcessPRChangedFiles(prFiles, baseFiles, headFiles, config, <<>>)
    IN  [status |-> IF pass.threw THEN "threw" ELSE "returned",
         changedFiles |-> changed,
         uncoveredFiles |-> pass.uncoveredFiles]

\* Before(a, b) of changedFiles.sort((a, b) => Math.abs(b.change) - Math.abs(a.change))
LargerChange(a, b) == FracLess(FracAbs(b.change), FracAbs(a.change))

RECURSIVE InsertEntry(_, _)
InsertEntry(x, s) ==
    IF s = <<>> THEN <<x>>
    ELSE IF LargerChange(x, Head(s)) THEN <<x>> \o s
    ELSE <<Head(s)>> \o InsertEntry(x, Tail(s))

\* A faulty variant of the row sort: ascending by |change|.
RECURSIVE InsertEntryAscending(_, _)
InsertEntryAscending(x, s) ==
    IF s = <<>> THEN <<x>>
    ELSE IF LargerChange(Head(s), x) THEN <<x>> \o s
    ELSE <<Head(s)>> \o InsertEntryAscending(x, Tail(s))

RECURSIVE SortAscending(_)
SortAscending(s) ==
    IF s = <<>> THEN <<>>
    ELSE InsertEntryAscending(s[Len(s)], SortAscending(SubSeq(s, 1, Len(s) - 1)))

\* Array.prototype.sort is stable: an entry is inserted after the entries whose
\* |change| is not smaller.
RECURSIVE SortByChange(_)
SortByChange(s) ==
    IF s = <<>> THEN <<>>
    ELSE InsertEntry(s[Len(s)], SortByChange(SubSeq(s, 1, Len(s) - 1)))

NeitherDoc == [style |-> "neither", classes |-> <<>>]

IdleDiff ==
    /\ baseCoverage = NeitherDoc
    /\ headCoverage = NeitherDoc
    /\ prChangedFiles = <<>>
    /\ coverageRcConfig = NoConfig
    /\ result = NoResult
    /\ rows = <<>>
    /\ dSteps = 0

\* A comment body: whether it holds the sentinel line, and what it reports.
Body(sentinel, kind, noReport, files, overall, tableRows, uncovered) ==
    [sentinel |-> sentinel, kind |-> kind, noReport |-> noReport, files |-> files,
     overall |-> overall, rows |-> tableRows, uncovered |-> uncovered]

\* A number rendered with toFixed(2): the text 'NaN', or hundredths.
NaNText == [isNaN |-> TRUE, hundredths |-> 0]

Fixed2(h) == [isNaN |-> FALSE, hundredths |-> h]

\* The overall table of a body that has none.
NoOverall ==
    [marker |-> "", basePercent |-> NaNText, headPercent |-> NaNText,
     diffPercent |-> NaNText, files |-> <<0, 0, 0>>, lines |-> <<0, 0, 0>>,
     branches |-> <<0, 0, 0>>, hits |-> <<0, 0, 0>>, misses |-> <<0, 0, 0>>,
     partials |-> <<0, 0, 0>>]

NoBody == Body(FALSE, "", {}, <<0, 0>>, NoOverall, <<>>, <<>>)

\* The .coveragerc of the workspace: how it is written, and the patterns it
\* lists under [run] omit.
NoFile == [form |-> "none", patterns |-> <<>>]

NoComment == [id |-> 0, userType |-> "", body |-> NoBody]

IdleRun ==
    /\ pc = "idle"
    /\ failed = ""
    /\ baseTimestamp = "unlisted"
    /\ headTimestamp = "unlisted"
    /\ message = NoBody
    /\ botComment = NoComment
    /\ comments = <<>>
    /\ calls = <<>>
    /\ nDownloads = 0
    /\ nParses = 0
    /\ nDiffs = 0
    /\ minCoverage = 0
    /\ coverageRcFile = NoFile
    /\ warnings = {}
    /\ authorType = "Bot"

\* The value of docMetrics before getCoverageMetrics has returned.
NoMetrics ==
    [threw |-> "", lines |-> 0, hits |-> 0, misses |-> 0, partials |-> 0,
     branches |-> 0, rateIsNaN |-> TRUE, lineRate |-> Zero]

\* The value of fileCount before countFiles has returned.
NoCount == [threw |-> FALSE, count |-> 0]

\* The value of threshold before the minimum has been compared.
NoThreshold == [minCoverage |-> 0, failed |-> "", marker |-> "+"]

IdleMetrics ==
    /\ coverageData = NeitherDoc
    /\ docMetrics = NoMetrics
    /\ fileCount = NoCount
    /\ docFiles = <<>>
    /\ mSteps = 0
    /\ minCoverageInput = ""
    /\ threshold = NoThreshold

(***************************************************************************)
(* SpecLines: calculateFileCoverage applied to one class element.          *)
(***************************************************************************)
NoClass == [filename |-> NoPath, lines |-> <<>>]

IdleLines ==
    /\ cls = NoClass
    /\ fileCov = NullCov
    /\ lSteps = 0

InitLines ==
    /\ IdleNormalize
    /\ IdleMetrics
    /\ IdleDiff
    /\ IdleRun
    /\ cls \in [filename : {MkPath(<<"a.py">>, FALSE)},
                lines : SeqsUpTo(LineElems, MaxLines)]
    /\ fileCov = NullCov
    /\ lSteps = 0

CalculateFileCoverage ==
    /\ lSteps = 0
    /\ fileCov' = calculateFileCoverage(cls)
    /\ lSteps' = 1
    /\ UNCHANGED cls
    /\ UNCHANGED <<metricVars, normVars, diffVars, runVars>>

NextLines == CalculateFileCoverage

SpecLines == InitLines /\ [][NextLines]_vars

\* The zero-hit line numbers of the class, as a set.
ZeroHitNumbers(c) == {c.lines[i].number : i \in {j \in DOMAIN c.lines : c.lines[j].hits = 0}}

\* The maximal runs of consecutive integers of a set, as <<first, last>> pairs.
MaximalRuns(Z) ==
    {<<lo, hi>> \in Z \X Z :
        /\ lo <= hi
        /\ \A k \in lo..hi : k \in Z
        /\ (lo - 1) \notin Z
        /\ (hi + 1) \notin Z}

\* The runs of a set in ascending order, written "N" or "N-M" and joined by ", ".
RECURSIVE RenderRuns(_)
RenderRuns(runs) ==
    IF runs = {} THEN <<>>
    ELSE LET r == CHOOSE x \in runs : \A y \in runs : x[1] <= y[1]
             one == IF r[1] = r[2] THEN <<NumTok(r[1])>>
                    ELSE <<NumTok(r[1]), DashTok, NumTok(r[2])>>
         IN  IF runs = {r} THEN one
             ELSE one \o <<CommaTok>> \o RenderRuns(runs \ {r})

\* The numbers a missing-lines string stands for: each "N" gives N, each "N-M"
\* gives N..M.
RECURSIVE Expand(_)
Expand(toks) ==
    IF toks = <<>> THEN {}
    ELSE IF toks[1].t # "num" THEN Expand(Tail(toks))
    ELSE IF Len(toks) >= 3 /\ toks[2].t = "-"
         THEN (toks[1].n .. toks[3].n) \cup Expand(SubSeq(toks, 4, Len(toks)))
    ELSE {toks[1].n} \cup Expand(Tail(toks))

\* C3: the missing-lines string of a class is the compression of its distinct
\* zero-hit line numbers into ascending maximal runs, and expanding it gives
\* back exactly the zero-hit line numbers.
C3_MissingLinesCompression ==
    (lSteps = 1 /\ ~fileCov.isNull) =>
        /\ fileCov.missingRanges = RenderRuns(MaximalRuns(ZeroHitNumbers(cls)))
        /\ Expand(fileCov.missingRanges) = ZeroHitNumbers(cls)

\* The line numbers of the class are pairwise distinct (the LineEntry invariant
\* of the data model).
DistinctLineNumbers(c) ==
    \A i, j \in DOMAIN c.lines : c.lines[i].number = c.lines[j].number => i = j

\* C3 on the classes whose line numbers are pairwise distinct.
C3_DistinctNumbers ==
    (lSteps = 1 /\ ~fileCov.isNull /\ DistinctLineNumbers(cls)) =>
        /\ fileCov.missingRanges = RenderRuns(MaximalRuns(ZeroHitNumbers(cls)))
        /\ Expand(fileCov.missingRanges) = ZeroHitNumbers(cls)

C3_Witness ==
    /\ lSteps = 1
    /\ DistinctLineNumbers(cls)
    /\ fileCov.missingRanges = <<NumTok(1), DashTok, NumTok(2), CommaTok, NumTok(4)>>

(***************************************************************************)
(* SpecDiff and SpecOmit: getFilesWithCoverageChanges is called, then      *)
(* run() sorts the list it got before it writes the per-file rows.         *)
(***************************************************************************)
MaxClasses == 3

UnixPath(segs) == MkPath(segs, FALSE)

L100 == <<[number |-> 1, hits |-> 1]>>
L50 == <<[number |-> 1, hits |-> 1], [number |-> 2, hits |-> 0]>>
L0 == <<[number |-> 2, hits |-> 0]>>

DiffClasses ==
    [filename : {UnixPath(<<"a.py">>), UnixPath(<<"b.js">>), UnixPath(<<"c.ts">>)},
     lines : {L100, L50}]
    \cup {[filename |-> UnixPath(<<"python_coverage", "a.py">>), lines |-> L0],
          [filename |-> UnixPath(<<"b.js">>), lines |-> <<>>]}

DocsOf(classLists) ==
    [style : {"flat", "packaged"}, classes : classLists] \cup {NeitherDoc}

\* The <<PR-changed files, configuration>> pairs of SpecDiff.
DiffCalls ==
    {<<(<<>>), NoConfig>>,
     <<(<<UnixPath(<<"python_coverage", "a.py">>), UnixPath(<<"tests", "a.py">>)>>),
       [shape |-> "array", text |-> "", omit |-> <<UnixPath(<<"tests", "*">>)>>]>>,
     <<(<<UnixPath(<<"a.py">>)>>),
       [shape |-> "string", text |-> "tests/*", omit |-> <<>>]>>}

InitDiff ==
    /\ IdleNormalize
    /\ IdleMetrics
    /\ IdleLines
    /\ IdleRun
    /\ baseCoverage \in DocsOf(SeqsUpTo(DiffClasses, MaxClasses))
    /\ headCoverage \in DocsOf(SeqsUpTo(DiffClasses, MaxClasses))
    /\ Len(baseCoverage.classes) + Len(headCoverage.classes) <= MaxClasses
    /\ \E call \in DiffCalls :
          /\ prChangedFiles = call[1]
          /\ coverageRcConfig = call[2]
    /\ result = NoResult
    /\ rows = <<>>
    /\ dSteps = 0

\* const { changedFiles, uncoveredFiles } = getFilesWithCoverageChanges(...)
GetFilesWithCoverageChanges ==
    /\ dSteps = 0
    /\ result' = getFilesWithCoverageChanges(baseCoverage, headCoverage,
                                             prChangedFiles, coverageRcConfig)
    /\ dSteps' = 1
    /\ UNCHANGED <<baseCoverage, headCoverage, prChangedFiles, coverageRcConfig, rows>>
    /\ UNCHANGED <<metricVars, normVars, lineVars, runVars>>

\* if (changedFiles.length > 0) { ... changedFiles.sort(...); changedFiles.forEach(...) }
\* result keeps the list as it was returned, rows is the list as it is written.
WriteRows ==
    /\ dSteps = 1
    /\ result.status = "returned"
    /\ Len(result.changedFiles) > 0
    /\ rows' = SortByChange(result.changedFiles)
    /\ dSteps' = 2
    /\ UNCHANGED <<baseCoverage, headCoverage, prChangedFiles, coverageRcConfig, result>>
    /\ UNCHANGED <<metricVars, normVars, lineVars, runVars>>

NextDiff == GetFilesWithCoverageChanges \/ WriteRows

SpecDiff == InitDiff /\ [][NextDiff]_vars

MaxPRFiles == 2

MaxPatterns == 2

OmitPRPaths ==
    {UnixPath(pre \o core) :
        pre \in {<<>>, <<"python_coverage">>, <<"src">>, <<".">>},
        core \in {<<"a.py">>, <<"tests", "a.py">>}}
    \cup {UnixPath(<<"notes.txt">>), UnixPath(<<".", "src", "a.py">>),
          MkPath(<<"tests", "a.py">>, TRUE)}

OmitPatterns ==
    {UnixPath(<<"*", "tests", "*">>), UnixPath(<<"src", "a.py">>),
     UnixPath(<<".", "tests", "*">>), UnixPath(<<"python_coverage", "tests", "*">>),
     UnixPath(<<"*", "src", "*">>)}

OmitConfigs ==
    {NoConfig,
     [shape |-> "string", text |-> "", omit |-> <<>>],
     [shape |-> "string", text |-> "*/tests/*", omit |-> <<>>]}
    \cup [shape : {"array"}, text : {""}, omit : SeqsUpTo(OmitPatterns, MaxPatterns)]

\* The <<base, head>> documents of SpecOmit.
OmitDocs ==
    {<<[style |-> "flat", classes |-> <<>>], [style |-> "flat", classes |-> <<>>]>>,
     <<[style |-> "flat",
        classes |-> <<[filename |-> UnixPath(<<"python_coverage", "a.py">>), lines |-> L100]>>],
       [style |-> "flat",
        classes |-> <<[filename |-> UnixPath(<<"a.py">>), lines |-> L50]>>]>>,
     <<NeitherDoc,
       [style |-> "packaged",
        classes |-> <<[filename |-> UnixPath(<<"tests", "a.py">>), lines |-> L100]>>]>>}

InitOmit ==
    /\ IdleNormalize
    /\ IdleMetrics
    /\ IdleLines
    /\ IdleRun
    /\ \E docs \in OmitDocs :
          /\ baseCoverage = docs[1]
          /\ headCoverage = docs[2]
    /\ prChangedFiles \in SeqsUpTo(OmitPRPaths, MaxPRFiles)
    /\ coverageRcConfig \in OmitConfigs
    /\ result = NoResult
    /\ rows = <<>>
    /\ dSteps = 0

SpecOmit == InitOmit /\ [][NextDiff]_vars

(***************************************************************************)
(* Properties of getFilesWithCoverageChanges and of the row sort.          *)
(***************************************************************************)
\* The indices of the class elements a document contributes to its map.
EntryIndices(doc) ==
    IF doc.style = "neither" THEN {}
    ELSE {i \in DOMAIN doc.classes : doc.classes[i].lines # <<>>}

\* The paths of a document: the keys of its per-file map.
PathsOf(doc) == {normalizePath(doc.classes[i].filename) : i \in EntryIndices(doc)}

IndicesOf(doc, p) == {i \in EntryIndices(doc) : normalizePath(doc.classes[i].filename) = p}

MaxOf(S) == CHOOSE x \in S : \A y \in S : y <= x
MinOf(S) == CHOOSE x \in S : \A y \in S : x <= y

\* <<covered lines, lines>> of path p in a document (of the last class element
\* of that path); <<0, 1>>, that is 0%, when the document has no entry for p.
CoveredOver(doc, p) ==
    IF p \notin PathsOf(doc) THEN <<0, 1>>
    ELSE LET lines == doc.classes[MaxOf(IndicesOf(doc, p))].lines
         IN  <<Cardinality({j \in DOMAIN lines : lines[j].hits > 0}), Len(lines)>>

\* |headCov(p) - baseCov(p)| > 0.01, the coverages being percentages.
ChangeAboveNoise(p) ==
    LET h == CoveredOver(headCoverage, p)
        b == CoveredOver(baseCoverage, p)
    IN  100 * AbsInt(100 * h[1] * b[2] - 100 * b[1] * h[2]) > h[2] * b[2]

RestrictedUnion ==
    {p \in PathsOf(baseCoverage) \cup PathsOf(headCoverage) :
        ChangeAboveNoise(p) \/ p \notin PathsOf(baseCoverage)}

NamesOf(list) == {list[i].filename : i \in DOMAIN list}

\* C1: changedFiles holds exactly one entry for each path of the union of the
\* base and head paths whose |change| is above 0.01 or that the base map lacks,
\* and no other entry; its length is the size of that restricted union.
C1_ChangedFilesExact ==
    dSteps >= 1 =>
        /\ \A i, j \in DOMAIN result.changedFiles :
              result.changedFiles[i].filename = result.changedFiles[j].filename => i = j
        /\ NamesOf(result.changedFiles) = RestrictedUnion
        /\ Len(result.changedFiles) = Cardinality(RestrictedUnion)

C1_Witness ==
    /\ dSteps >= 1
    /\ Cardinality(PathsOf(baseCoverage) \cup PathsOf(headCoverage)) = 3
    /\ Len(result.changedFiles) = 2
    /\ \E i, j \in DOMAIN result.changedFiles :
          result.changedFiles[i].isNew /\ ~result.changedFiles[j].isNew

\* p comes before q in the union order: the base paths in document order,
\* then the head-only paths in document order.
UnionBefore(p, q) ==
    LET inBase(x) == x \in PathsOf(baseCoverage)
    IN  \/ inBase(p) /\ ~inBase(q)
        \/ /\ inBase(p) /\ inBase(q)
           /\ MinOf(IndicesOf(baseCoverage, p)) < MinOf(IndicesOf(baseCoverage, q))
        \/ /\ ~inBase(p) /\ ~inBase(q)
           /\ MinOf(IndicesOf(headCoverage, p)) < MinOf(IndicesOf(headCoverage, q))

AbsChange(entry) == FracAbs(entry.change)

\* Descending |change|, entries of equal |change| in union order.
SortedByChange(list) ==
    \A i, j \in DOMAIN list : i < j =>
        /\ ~FracLess(AbsChange(list[i]), AbsChange(list[j]))
        /\ AbsChange(list[i]) = AbsChange(list[j])
              => UnionBefore(list[i].filename, list[j].filename)

InUnionOrder(list) ==
    \A i, j \in DOMAIN list : i < j => UnionBefore(list[i].filename, list[j].filename)

CompiledPattern(pattern) == TrailingStar(LeadingStar(StripPrefix(ToUnix(pattern), ".")))

\* The path of a PR-changed file matches the pattern literally or under a
\* leading recursive-directory prefix.
PathMatches(file, pattern) ==
    \/ MatchOne(file.segs, CompiledPattern(pattern).segs)
    \/ MatchOne(file.segs, <<"**">> \o CompiledPattern(pattern).segs)

ListedPatterns ==
    IF coverageRcConfig.shape = "array"
    THEN {coverageRcConfig.omit[k] : k \in DOMAIN coverageRcConfig.omit} ELSE {}

Uncovered == {result.uncoveredFiles[i] : i \in DOMAIN result.uncoveredFiles}

\* C5: a PR-changed file whose path matches an omit pattern of the configuration
\* is not in uncoveredFiles, with a python_coverage/, src/ or ./ prefix or none.
C5_OmittedNeverUncovered ==
    (dSteps >= 1 /\ result.status = "returned") =>
        \A i \in DOMAIN prChangedFiles :
            (\E pattern \in ListedPatterns : PathMatches(prChangedFiles[i], pattern))
                => normalizePath(prChangedFiles[i]) \notin Uncovered

\* The PR-changed file is one the omit filter matches.
FilterMatches(file) ==
    \E pattern \in ListedPatterns : PatternMatches(normalizePath(file), pattern)

\* C5 for the files the omit filter matches (its own file name and pattern
\* normalisations applied): none of them is in uncoveredFiles.
C5_FilterMatchNeverUncovered ==
    (dSteps >= 1 /\ result.status = "returned") =>
        \A i \in DOMAIN prChangedFiles :
            FilterMatches(prChangedFiles[i])
                => normalizePath(prChangedFiles[i]) \notin Uncovered

\* The indices of the PR-changed files that uncoveredFiles is to list.
UncoveredIndices ==
    {i \in DOMAIN prChangedFiles :
        /\ ExtOf(Last(prChangedFiles[i].segs)) \in {"py", "js", "java", "jsx", "ts", "tsx"}
        /\ ~FilterMatches(prChangedFiles[i])
        /\ normalizePath(prChangedFiles[i])
              \notin PathsOf(baseCoverage) \cup PathsOf(headCoverage)}

\* The normalized names of the files at the indices, in ascending index order.
RECURSIVE NamesInOrder(_)
NamesInOrder(indices) ==
    IF indices = {} THEN <<>>
    ELSE <<normalizePath(prChangedFiles[MinOf(indices)])>>
         \o NamesInOrder(indices \ {MinOf(indices)})

C7_OmitLeavesDiffTable ==
    dSteps >= 1 =>
        /\ result.status = "returned"
        /\ result.changedFiles =
              getFilesWithCoverageChanges(baseCoverage, headCoverage, <<>>, NoConfig).changedFiles

\* C7 for the calls that return.
C7_ReturnedListUnchanged ==
    (dSteps >= 1 /\ result.status = "returned") =>
        result.changedFiles =
            getFilesWithCoverageChanges(baseCoverage, headCoverage, <<>>, NoConfig).changedFiles

(***************************************************************************)
(* run().  The comment body is the sequence of its lines; a line has a     *)
(* kind and what it is about.  The sentinel line is the line               *)
(* '<!-- Coverage Report Bot -->'.                                         *)
(***************************************************************************)
\* body.includes('<!-- Coverage Report Bot -->')
IncludesSentinel(body) == body.sentinel

\* A faulty variant of the coverage-unavailable message: the sentinel line is missing.
UnavailableMessageNoSentinel(baseTs, headTs) ==
    Body(FALSE, "unavailable",
         {b \in {"base", "head"} :
             (b = "base" /\ baseTs = "none") \/ (b = "head" /\ headTs = "none")},
         <<0, 0>>, NoOverall, <<>>, <<>>)

\* The message of lines 87-98: the sentinel, the status title and the sentence
\* that names both branches, the base branch or the head branch.
UnavailableMessage(baseTs, headTs) ==
    Body(TRUE, "unavailable",
         IF baseTs = "none" /\ headTs = "none" THEN {"base", "head"}
         ELSE IF baseTs = "none" THEN {"base"} ELSE {"head"},
         <<0, 0>>, NoOverall, <<>>, <<>>)

\* A faulty variant of the availability test: only the base timestamp is looked at.
BothAvailableBaseOnly(baseTs, headTs) == baseTs # "none"

\* !(!baseTimestamp || !headTimestamp)
BothAvailable(baseTs, headTs) == ~(baseTs = "none" \/ headTs = "none")

\* countFiles: the number of class elements with a filename, or a TypeError
\* (coverage.coverage.packages is undefined in a document with a classes node).
countFiles(doc) ==
    CASE doc.style = "flat" -> [threw |-> TRUE, count |-> 0]
      [] doc.style = "packaged" -> [threw |-> FALSE, count |-> Len(doc.classes)]
      [] OTHER -> [threw |-> FALSE, count |-> 0]

\* A faulty variant of the comment search: the first comment of a Bot.
FindAnyBotComment(list) ==
    IF \E i \in DOMAIN list : list[i].userType = "Bot"
    THEN list[MinOf({i \in DOMAIN list : list[i].userType = "Bot"})]
    ELSE NoComment

\* comments.data.find(comment => comment.user.type === 'Bot' &&
\*                               comment.body.includes('<!-- Coverage Report Bot -->'))
RECURSIVE FindBotComment(_)
FindBotComment(list) ==
    IF list = <<>> THEN NoComment
    ELSE IF Head(list).userType = "Bot" /\ IncludesSentinel(Head(list).body)
    THEN Head(list)
    ELSE FindBotComment(Tail(list))

MaxComments == 2

OtherBody == Body(FALSE, "other", {}, <<0, 0>>, NoOverall, <<>>, <<>>)

OldReportBody == Body(TRUE, "diff", {}, <<1, 1>>, NoOverall, <<>>, <<>>)

\* The comments a pull request may hold before the run, with ids 1, 2, ...
CommentLists ==
    {list \in SeqsUpTo([id : 1..MaxComments, userType : {"Bot", "User"},
                        body : {OtherBody, OldReportBody}], MaxComments) :
        \A i \in DOMAIN list : list[i].id = i}

\* A line element: number and hits as parseInt reads them, the branch
\* attribute, and the numbers written in the attribute named condAttr, which
\* is "condition-coverage" (the name Cobertura writes) or "condition_coverage"
\* (the name line.$.condition_coverage reads); "1/2" holds 1 and 2,
\* "50% (1/2)" holds 50, 1 and 2.
RunLine(number, hits, branch, condAttr, cond) ==
    [number |-> number, hits |-> hits, branch |-> branch,
     condAttr |-> condAttr, cond |-> cond]

\* A line element without branch data.
PlainLine(number, hits) == RunLine(number, hits, FALSE, "", <<>>)

\* A parsed document: attrs tells whether the root element has attributes
\* (coverage.$ is undefined without any).
RunDoc(style, branchesValid, classes) ==
    [style |-> style, attrs |-> TRUE, branchesValid |-> branchesValid,
     classes |-> classes]

\* <coverage></coverage>: xml2js gives { coverage: '' }.
EmptyRootDoc == [RunDoc("neither", 0, <<>>) EXCEPT !.attrs = FALSE]

\* A document whose root element is not <coverage>: coverageData.coverage is
\* undefined.
ForeignRootDoc == [RunDoc("foreign", 0, <<>>) EXCEPT !.attrs = FALSE]

\* The documents of Spec, as downloaded; "malformed" is text xml2js rejects.
MalformedDoc == RunDoc("malformed", 0, <<>>)

RunDocs ==
    {RunDoc("packaged", 0,
        <<[filename |-> UnixPath(<<"a.py">>), lines |-> <<PlainLine(1, 1)>>]>>),
     RunDoc("packaged", 2,
        <<[filename |-> UnixPath(<<"a.py">>),
           lines |-> <<RunLine(1, 1, TRUE, "condition_coverage", <<1, 2>>),
                       PlainLine(2, 0)>>],
          [filename |-> UnixPath(<<"b.js">>), lines |-> <<PlainLine(1, 1)>>]>>),
     RunDoc("packaged", 4,
        <<[filename |-> UnixPath(<<"a.py">>),
           lines |-> <<RunLine(1, 1, TRUE, "condition-coverage", <<50, 1, 2>>)>>],
          [filename |-> UnixPath(<<"c.ts">>),
           lines |-> <<RunLine(1, 1, TRUE, "condition-coverage", <<2, 2>>),
                       RunLine(2, 0, TRUE, "condition-coverage", <<0, 2>>)>>]>>),
     RunDoc("packaged", 0,
        <<[filename |-> UnixPath(<<"a.py">>), lines |-> <<>>]>>),
     RunDoc("packaged", 0, <<>>),
     RunDoc("packaged", 0,
        <<[filename |-> UnixPath(<<"b.js">>),
           lines |-> <<PlainLine(1, NaN), PlainLine(NaN, 0)>>]>>),
     RunDoc("flat", 0,
        <<[filename |-> UnixPath(<<"a.py">>), lines |-> <<PlainLine(1, 1)>>]>>),
     RunDoc("neither", 0, <<>>),
     EmptyRootDoc,
     ForeignRootDoc,
     MalformedDoc}

RcPatterns == <<UnixPath(<<"*", "tests", "*">>)>>

\* The files of Spec: none; one that cannot be read; one without a [run]
\* section; and three that list the patterns under [run] omit, on the line of
\* omit ("omit = a, b"), one per line below "omit =", and as "omit[] = a".
CoverageRcFiles ==
    {NoFile,
     [form |-> "unreadable", patterns |-> <<>>],
     [form |-> "noRun", patterns |-> <<>>],
     [form |-> "oneLine", patterns |-> RcPatterns],
     [form |-> "perLine", patterns |-> RcPatterns],
     [form |-> "array", patterns |-> RcPatterns]}

\* ini.parse: the value of run.omit.  Text after "omit =" on its line is a
\* string; a line without "=" is a key of its own with the value true, so
\* patterns written one per line leave omit the empty string; "omit[] ="
\* lines make an array.
iniParse(file) ==
    CASE file.form = "oneLine" -> [shape |-> "string", text |-> "*/tests/*", omit |-> <<>>]
      [] file.form = "perLine" -> [shape |-> "string", text |-> "", omit |-> <<>>]
      [] file.form = "array" -> [shape |-> "array", text |-> "", omit |-> file.patterns]
      [] OTHER -> NoConfig

\* A faulty variant of the loading: without a readable [run] section the tests
\* directories are omitted.
LoadCoverageRcDefaultOmit(file) ==
    IF file.form \in {"none", "unreadable", "noRun"}
    THEN [shape |-> "array", text |-> "", omit |-> RcPatterns]
    ELSE iniParse(file)

\* Lines 24-47: {} without a file or when readFileSync throws; else what
\* ini.parse returns (Object.keys(undefined) throws without a [run] section,
\* after the assignment, and the catch only warns).
LoadCoverageRc(file) ==
    IF file.form \in {"none", "unreadable"} THEN NoConfig ELSE iniParse(file)

\* core.warning(`Failed to parse .coveragerc: ...`) of line 45: readFileSync
\* throws, or Object.keys(coverageRcConfig.run) does without a [run] section.
LoadWarnings(file) ==
    IF file.form \in {"unreadable", "noRun"} THEN {"Failed to parse .coveragerc"} ELSE {}

RunPRLists ==
    {<<>>,
     <<UnixPath(<<"python_coverage", "a.py">>), UnixPath(<<"tests", "a.py">>)>>,
     <<UnixPath(<<"c.ts">>), UnixPath(<<"notes.txt">>)>>}

\* parseFloat of the min_coverage input; NaN for text that is no number.
parseFloat(text) ==
    CASE text = "0" -> 0
      [] text = "00" -> 0
      [] text = "50" -> 50
      [] text = "100" -> 100
      [] OTHER -> NaN

MinCoverageInputs == {"", "abc", "0", "00", "50", "100"}

\* parseFloat(core.getInput('min_coverage')) || 80
MinCoverageOf(text) ==
    IF parseFloat(text) = NaN \/ parseFloat(text) = 0 THEN 80 ELSE parseFloat(text)

RECURSIVE TotalLines(_)
TotalLines(classes) ==
    IF classes = <<>> THEN 0
    ELSE Len(Head(classes).lines) + TotalLines(Tail(classes))

RECURSIVE CoveredLines(_)
CoveredLines(classes) ==
    IF classes = <<>> THEN 0
    ELSE CountCovered(Head(classes).lines) + CoveredLines(Tail(classes))

\* A faulty variant of the count of misses: the lines with zero hits.
RECURSIVE CountZeroHits(_)
CountZeroHits(lines) ==
    IF lines = <<>> THEN 0
    ELSE (IF Head(lines).hits = 0 THEN 1 ELSE 0) + CountZeroHits(Tail(lines))

\* if (hits > 0) coveredLines++; else misses++;
RECURSIVE CountMisses(_)
CountMisses(lines) ==
    IF lines = <<>> THEN 0
    ELSE (IF Head(lines).hits > 0 THEN 0 ELSE 1) + CountMisses(Tail(lines))

RECURSIVE Misses(_)
Misses(classes) ==
    IF classes = <<>> THEN 0
    ELSE CountMisses(Head(classes).lines) + Misses(Tail(classes))

\* line.$.condition_coverage?.match(/\d+/g) || []
Conditions(line) ==
    IF line.condAttr = "condition_coverage" THEN line.cond ELSE <<>>

\* line.$.branch === 'true', with two numbers in conditions, the first
\* positive and less than the second
IsPartial(line) ==
    /\ line.branch
    /\ Len(Conditions(line)) = 2
    /\ Conditions(line)[1] > 0
    /\ Conditions(line)[1] < Conditions(line)[2]

RECURSIVE CountPartials(_)
CountPartials(lines) ==
    IF lines = <<>> THEN 0
    ELSE (IF IsPartial(Head(lines)) THEN 1 ELSE 0) + CountPartials(Tail(lines))

RECURSIVE Partials(_)
Partials(classes) ==
    IF classes = <<>> THEN 0
    ELSE CountPartials(Head(classes).lines) + Partials(Tail(classes))

\* getCoverageMetrics: the lines, hits, misses and partials of all class
\* elements, the branches-valid attribute of the root, and the line rate,
\* which is NaN (0 / 0) for a document without lines.  Reading
\* coverage.classes throws when there is no coverage root, and reading
\* coverage.$['branches-valid'] does when the root has no attributes.
getCoverageMetrics(doc) ==
    LET classes == IF doc.style \in {"flat", "packaged"} THEN doc.classes ELSE <<>>
        total == TotalLines(classes)
        covered == CoveredLines(classes)
    IN  IF doc.style = "foreign"
        THEN [NoMetrics EXCEPT
                 !.threw = "Cannot read properties of undefined (reading 'classes')"]
        ELSE IF ~doc.attrs
        THEN [NoMetrics EXCEPT
                 !.threw = "Cannot read properties of undefined (reading 'branches-valid')"]
        ELSE [threw |-> "",
              lines |-> total, hits |-> covered, misses |-> Misses(classes),
              partials |-> Partials(classes), branches |-> doc.branchesValid,
              rateIsNaN |-> total = 0,
              lineRate |-> IF total = 0 THEN Zero ELSE Frac(covered, total)]

\* (lineRate * 100).toFixed(2), in hundredths of a percent, rounded half up
toFixed2(rate) == (2 * 10000 * rate.num + rate.den) \div (2 * rate.den)

\* A faulty variant of the threshold test: a head coverage equal to the
\* minimum fails the run too.
AtMostMinimum(metrics, minimum) ==
    ~metrics.rateIsNaN /\ toFixed2(metrics.lineRate) <= 100 * minimum

\* headPercent < minCoverage, which is false for the text 'NaN'
BelowMinimum(metrics, minimum) ==
    ~metrics.rateIsNaN /\ toFixed2(metrics.lineRate) < 100 * minimum

\* x.toFixed(2) of a number x that is not NaN, in hundredths: the magnitude is
\* rounded half up and keeps the sign.
toFixed(x) ==
    IF x.num < 0
    THEN Fixed2(0 - ((200 * (0 - x.num) + x.den) \div (2 * x.den)))
    ELSE Fixed2((200 * x.num + x.den) \div (2 * x.den))

\* (lineRate * 100).toFixed(2)
PercentText(metrics) ==
    IF metrics.rateIsNaN THEN NaNText ELSE Fixed2(toFixed2(metrics.lineRate))

\* coverageDiff = headMetrics.lineRate - baseMetrics.lineRate, NaN if one is
DiffIsNaN(baseMetrics, headMetrics) == baseMetrics.rateIsNaN \/ headMetrics.rateIsNaN

coverageDiff(baseMetrics, headMetrics) ==
    FracSub(headMetrics.lineRate, baseMetrics.lineRate)

\* (coverageDiff * 100).toFixed(2)
coverageDiffPercent(baseMetrics, headMetrics) ==
    IF DiffIsNaN(baseMetrics, headMetrics) THEN NaNText
    ELSE LET d == coverageDiff(baseMetrics, headMetrics)
         IN  toFixed(Frac(100 * d.num, d.den))

\* A faulty variant of the marker of the Coverage row: the threshold is not
\* looked at.
CoverageMarkerDeltaOnly(baseMetrics, headMetrics, minimum) ==
    IF ~DiffIsNaN(baseMetrics, headMetrics)
       /\ coverageDiff(baseMetrics, headMetrics).num < 0
    THEN "-" ELSE "+"

\* coverageDiff < 0 ? '-' : (headPercent < minCoverage ? '-' : '+')
CoverageMarker(baseMetrics, headMetrics, minimum) ==
    IF ~DiffIsNaN(baseMetrics, headMetrics)
       /\ coverageDiff(baseMetrics, headMetrics).num < 0
    THEN "-"
    ELSE IF BelowMinimum(headMetrics, minimum) THEN "-" ELSE "+"

\* A faulty variant of a row of the overall table: the base value is
\* subtracted from itself.
ColumnsNoDelta(baseValue, headValue) == <<baseValue, headValue, 0>>

\* A row of the overall table: base, head, and head minus base.
Columns(baseValue, headValue) == <<baseValue, headValue, headValue - baseValue>>

\* Lines 184-196: the overall table.
Overall(base, head, minimum) ==
    LET baseMetrics == getCoverageMetrics(base)
        headMetrics == getCoverageMetrics(head)
    IN  [marker |-> CoverageMarker(baseMetrics, headMetrics, minimum),
         basePercent |-> PercentText(baseMetrics),
         headPercent |-> PercentText(headMetrics),
         diffPercent |-> coverageDiffPercent(baseMetrics, headMetrics),
         files |-> Columns(countFiles(base).count, countFiles(head).count),
         lines |-> Columns(baseMetrics.lines, headMetrics.lines),
         branches |-> Columns(baseMetrics.branches, headMetrics.branches),
         hits |-> Columns(baseMetrics.hits, headMetrics.hits),
         misses |-> Columns(baseMetrics.misses, headMetrics.misses),
         partials |-> Columns(baseMetrics.partials, headMetrics.partials)]

\* A faulty variant of the prefix of a row: a new file has no marker of its own.
RowPrefixTrendOnly(entry, minimum) ==
    IF entry.change.num < 0 \/ entry.headCov.num < minimum * entry.headCov.den
    THEN "- " ELSE "+ "

\* isNew ? '+ ' : (change < 0 || headCov < minCoverage) ? '- ' : '+ '
RowPrefix(entry, minimum) ==
    IF entry.isNew THEN "+ "
    ELSE IF entry.change.num < 0 \/ entry.headCov.num < minimum * entry.headCov.den
    THEN "- " ELSE "+ "

\* Lines 219-228: the row of a changed file.
RenderRow(entry, minimum) ==
    [prefix |-> RowPrefix(entry, minimum),
     filename |-> entry.filename,
     baseCov |-> toFixed(entry.baseCov),
     headCov |-> toFixed(entry.headCov),
     change |-> toFixed(entry.change),
     entry |-> entry]

RECURSIVE RenderRows(_, _)
RenderRows(entries, minimum) ==
    IF entries = <<>> THEN <<>>
    ELSE <<RenderRow(Head(entries), minimum)>> \o RenderRows(Tail(entries), minimum)

\* The message of lines 180-246: the sentinel, the overall table, the rows of
\* the sorted changed files and the list of the uncovered files.
DiffMessage(base, head, changed, uncovered, minimum) ==
    Body(TRUE, "diff", {}, <<countFiles(base).count, countFiles(head).count>>,
         Overall(base, head, minimum),
         RenderRows(SortByChange(changed), minimum), uncovered)

Init ==
    /\ IdleNormalize
    /\ IdleMetrics
    /\ IdleLines
    /\ IdleDiff
    /\ pc = "start"
    /\ failed = ""
    /\ baseTimestamp = "unlisted"
    /\ headTimestamp = "unlisted"
    /\ message = NoBody
    /\ botComment = NoComment
    /\ comments \in CommentLists
    /\ calls = <<>>
    /\ nDownloads = 0
    /\ nParses = 0
    /\ nDiffs = 0
    /\ minCoverage = 0
    /\ coverageRcFile \in CoverageRcFiles
    /\ warnings = {}
    /\ authorType = "Bot"

\* A faulty variant of the catch clause: the run ends without being marked.
FailUnmarked(error) ==
    /\ failed' = ""
    /\ pc' = "done"

\* catch (error) { core.setFailed(error.message) }
Fail(error) ==
    /\ failed' = error
    /\ pc' = "done"

\* Lines 17-79: the inputs and the .coveragerc are read, the credentials are
\* parsed and the branch names are taken from the environment.
Start ==
    /\ pc = "start"
    /\ \E text \in MinCoverageInputs,
          credentialsValid \in BOOLEAN, pullRequest \in BOOLEAN :
          /\ minCoverage' = MinCoverageOf(text)
          /\ coverageRcConfig' = LoadCoverageRc(coverageRcFile)
          /\ warnings' = LoadWarnings(coverageRcFile)
          /\ IF ~credentialsValid THEN Fail("Invalid GCP credentials JSON")
             ELSE IF ~pullRequest
             THEN Fail("This action can only be run on pull request events")
             ELSE pc' = "listBase" /\ UNCHANGED failed
    /\ UNCHANGED <<baseCoverage, headCoverage, prChangedFiles, result, rows, dSteps>>
    /\ UNCHANGED <<baseTimestamp, headTimestamp, message, botComment, comments, calls,
                   nDownloads, nParses, nDiffs, coverageRcFile, authorType>>
    /\ UNCHANGED <<metricVars, normVars, lineVars>>

\* A faulty variant of the base listing: it is not awaited, and the head
\* listing is issued while the base timestamp is not known.
ListBaseUnawaited ==
    /\ pc = "listBase"
    /\ pc' = "listHead"
    /\ UNCHANGED <<failed, baseTimestamp, headTimestamp, message, botComment, comments,
                   calls, nDownloads, nParses, nDiffs, minCoverage, coverageRcFile,
                   warnings, authorType>>
    /\ UNCHANGED <<metricVars, normVars, lineVars, diffVars>>

\* const baseTimestamp = await getLatestTimestamp(bucket, basePath)
ListBase ==
    /\ pc = "listBase"
    /\ \E listing \in {"error", "none", "20240315_120000"} :
          IF listing = "error"
          THEN Fail("Failed to list files") /\ UNCHANGED baseTimestamp
          ELSE /\ baseTimestamp' = listing
               /\ pc' = "listHead"
               /\ UNCHANGED failed
    /\ UNCHANGED <<headTimestamp, message, botComment, comments, calls,
                   nDownloads, nParses, nDiffs, minCoverage, coverageRcFile,
                   warnings, authorType>>
    /\ UNCHANGED <<metricVars, normVars, lineVars, diffVars>>

\* const headTimestamp = await getLatestTimestamp(bucket, headPath), then the
\* test of line 85 and, with a report missing, the message of lines 87-98.
ListHead ==
    /\ pc = "listHead"
    /\ \E listing \in {"error", "none", "20240316_090000"} :
          IF listing = "error"
          THEN Fail("Failed to list files") /\ UNCHANGED <<headTimestamp, message>>
          ELSE /\ headTimestamp' = listing
               /\ UNCHANGED failed
               /\ IF BothAvailable(baseTimestamp, listing)
                  THEN pc' = "downloadBase" /\ UNCHANGED message
                  ELSE /\ pc' = "listCommentsUnavailable"
                       /\ message' = UnavailableMessage(baseTimestamp, listing)
    /\ UNCHANGED <<baseTimestamp, botComment, comments, calls, nDownloads, nParses,
                   nDiffs, minCoverage, coverageRcFile,
                   warnings, authorType>>
    /\ UNCHANGED <<metricVars, normVars, lineVars, diffVars>>

\* await octokit.rest.issues.listComments(...) and comments.data.find(...)
FindComment(next) ==
    /\ botComment' = FindBotComment(comments)
    /\ pc' = next
    /\ UNCHANGED <<failed, baseTimestamp, headTimestamp, message, comments, calls,
                   nDownloads, nParses, nDiffs, minCoverage, coverageRcFile,
                   warnings, authorType>>
    /\ UNCHANGED <<metricVars, normVars, lineVars, diffVars>>

\* A faulty variant of the publication: the comment found is not looked at.
PublishCommentAnew ==
    /\ calls' = Append(calls, [op |-> "createComment", id |-> 0, body |-> message])
    /\ comments' = Append(comments, [id |-> Len(comments) + 1,
                                     userType |-> authorType, body |-> message])

\* if (botComment) { await updateComment(...) } else { await createComment(...) }
PublishComment ==
    IF botComment # NoComment
    THEN /\ calls' = Append(calls, [op |-> "updateComment", id |-> botComment.id,
                                    body |-> message])
         /\ comments' = [i \in DOMAIN comments |->
                           IF comments[i].id = botComment.id
                           THEN [comments[i] EXCEPT !.body = message]
                           ELSE comments[i]]
    ELSE /\ calls' = Append(calls, [op |-> "createComment", id |-> 0,
                                    body |-> message])
         /\ comments' = Append(comments, [id |-> Len(comments) + 1,
                                          userType |-> authorType, body |-> message])

\* Lines 101-110
ListCommentsUnavailable ==
    /\ pc = "listCommentsUnavailable"
    /\ FindComment("publishUnavailable")

\* Lines 112-130: the message is published and run() returns.
PublishUnavailable ==
    /\ pc = "publishUnavailable"
    /\ PublishComment
    /\ pc' = "done"
    /\ UNCHANGED <<failed, baseTimestamp, headTimestamp, message, botComment,
                   nDownloads, nParses, nDiffs, minCoverage, coverageRcFile,
                   warnings, authorType>>
    /\ UNCHANGED <<metricVars, normVars, lineVars, diffVars>>

\* const baseCoverageContent = await downloadFile(bucket, baseCoveragePath)
DownloadBase ==
    /\ pc = "downloadBase"
    /\ nDownloads' = nDownloads + 1
    /\ \E content \in RunDocs, ok \in BOOLEAN :
          IF ~ok
          THEN Fail("Failed to download file") /\ UNCHANGED baseCoverage
          ELSE /\ baseCoverage' = content
               /\ pc' = "downloadHead"
               /\ UNCHANGED failed
    /\ UNCHANGED <<headCoverage, prChangedFiles, coverageRcConfig, result, rows, dSteps>>
    /\ UNCHANGED <<baseTimestamp, headTimestamp, message, botComment, comments, calls,
                   nParses, nDiffs, minCoverage, coverageRcFile,
                   warnings, authorType>>
    /\ UNCHANGED <<metricVars, normVars, lineVars>>

\* const headCoverageContent = await downloadFile(bucket, headCoveragePath)
DownloadHead ==
    /\ pc = "downloadHead"
    /\ nDownloads' = nDownloads + 1
    /\ \E content \in RunDocs, ok \in BOOLEAN :
          IF ~ok
          THEN Fail("Failed to download file") /\ UNCHANGED headCoverage
          ELSE /\ headCoverage' = content
               /\ pc' = "parseBase"
               /\ UNCHANGED failed
    /\ UNCHANGED <<baseCoverage, prChangedFiles, coverageRcConfig, result, rows, dSteps>>
    /\ UNCHANGED <<baseTimestamp, headTimestamp, message, botComment, comments, calls,
                   nParses, nDiffs, minCoverage, coverageRcFile,
                   warnings, authorType>>
    /\ UNCHANGED <<metricVars, normVars, lineVars>>

\* const baseCoverage = await parser.parseStringPromise(baseCoverageContent)
ParseBase ==
    /\ pc = "parseBase"
    /\ nParses' = nParses + 1
    /\ IF baseCoverage = MalformedDoc
       THEN Fail("Invalid XML")
       ELSE pc' = "parseHead" /\ UNCHANGED failed
    /\ UNCHANGED <<baseTimestamp, headTimestamp, message, botComment, comments, calls,
                   nDownloads, nDiffs, minCoverage, coverageRcFile,
                   warnings, authorType>>
    /\ UNCHANGED <<metricVars, normVars, lineVars, diffVars>>

\* const headCoverage = await parser.parseStringPromise(headCoverageContent)
ParseHead ==
    /\ pc = "parseHead"
    /\ nParses' = nParses + 1
    /\ IF headCoverage = MalformedDoc
       THEN Fail("Invalid XML")
       ELSE pc' = "prFiles" /\ UNCHANGED failed
    /\ UNCHANGED <<baseTimestamp, headTimestamp, message, botComment, comments, calls,
                   nDownloads, nDiffs, minCoverage, coverageRcFile,
                   warnings, authorType>>
    /\ UNCHANGED <<metricVars, normVars, lineVars, diffVars>>

\* printFileStatistics: the messages of its core.warning.  It warns when it
\* throws, which reading coverage.coverage.classes does without a coverage
\* root; for a coverage root without a classes or packages node neither branch
\* is taken and nothing is thrown.
printFileStatistics(doc) ==
    IF doc.style = "foreign" THEN {"Error printing file statistics"} ELSE {}

\* getPRChangedFiles: the files listed, or [] and a warning when the listing
\* fails.
getPRChangedFiles(listed, files) ==
    IF listed THEN [files |-> files, warnings |-> {}]
    ELSE [files |-> <<>>, warnings |-> {"Failed to fetch PR changed files"}]

\* Lines 152-248: the statistics are printed and the metrics computed; after
\* await getPRChangedFiles the changes are computed and the message is written.
BuildReport ==
    /\ pc = "prFiles"
    /\ \E listed \in BOOLEAN, files \in RunPRLists :
          LET printed == printFileStatistics(baseCoverage)
                            \cup printFileStatistics(headCoverage)
              fetched == getPRChangedFiles(listed, files)
              diff == getFilesWithCoverageChanges(baseCoverage, headCoverage,
                                                  fetched.files, coverageRcConfig)
          IN  IF getCoverageMetrics(baseCoverage).threw # ""
              THEN /\ Fail(getCoverageMetrics(baseCoverage).threw)
                   /\ warnings' = warnings \cup printed
                   /\ UNCHANGED <<prChangedFiles, result, nDiffs, message, rows>>
              ELSE IF getCoverageMetrics(headCoverage).threw # ""
              THEN /\ Fail(getCoverageMetrics(headCoverage).threw)
                   /\ warnings' = warnings \cup printed
                   /\ UNCHANGED <<prChangedFiles, result, nDiffs, message, rows>>
              ELSE /\ prChangedFiles' = fetched.files
                   /\ warnings' = warnings \cup printed \cup fetched.warnings
                   /\ result' = diff
                   /\ nDiffs' = nDiffs + 1
                   /\ IF diff.status = "threw"
                      THEN /\ Fail("omitPatterns.some is not a function")
                           /\ UNCHANGED <<message, rows>>
                      ELSE IF countFiles(baseCoverage).threw \/ countFiles(headCoverage).threw
                      THEN /\ Fail("Cannot read properties of undefined (reading 'forEach')")
                           /\ UNCHANGED <<message, rows>>
                      ELSE /\ message' = DiffMessage(baseCoverage, headCoverage,
                                                     diff.changedFiles, diff.uncoveredFiles,
                                                     minCoverage)
                           /\ rows' = SortByChange(diff.changedFiles)
                           /\ pc' = "listComments"
                           /\ UNCHANGED failed
    /\ UNCHANGED <<baseCoverage, headCoverage, coverageRcConfig, dSteps>>
    /\ UNCHANGED <<baseTimestamp, headTimestamp, botComment, comments, calls,
                   nDownloads, nParses, minCoverage, coverageRcFile, authorType>>
    /\ UNCHANGED <<metricVars, normVars, lineVars>>

\* Lines 251-260
ListComments ==
    /\ pc = "listComments"
    /\ FindComment("publish")

\* Lines 262-280: the report is published.
Publish ==
    /\ pc = "publish"
    /\ PublishComment
    /\ pc' = "threshold"
    /\ UNCHANGED <<failed, baseTimestamp, headTimestamp, message, botComment,
                   nDownloads, nParses, nDiffs, minCoverage, coverageRcFile,
                   warnings, authorType>>
    /\ UNCHANGED <<metricVars, normVars, lineVars, diffVars>>

BelowMinimumMessage == "Coverage is below minimum required"

\* Lines 282-291: after the call has returned, the run is marked failed if the
\* head coverage is below the minimum.
CheckThreshold ==
    /\ pc = "threshold"
    /\ pc' = "done"
    /\ IF BelowMinimum(getCoverageMetrics(headCoverage), minCoverage)
       THEN failed' = BelowMinimumMessage
       ELSE UNCHANGED failed
    /\ UNCHANGED <<baseTimestamp, headTimestamp, message, botComment, comments, calls,
                   nDownloads, nParses, nDiffs, minCoverage, coverageRcFile,
                   warnings, authorType>>
    /\ UNCHANGED <<metricVars, normVars, lineVars, diffVars>>

Next ==
    \/ Start
    \/ ListBase
    \/ ListHead
    \/ ListCommentsUnavailable
    \/ PublishUnavailable
    \/ DownloadBase
    \/ DownloadHead
    \/ ParseBase
    \/ ParseHead
    \/ BuildReport
    \/ ListComments
    \/ Publish
    \/ CheckThreshold

Spec == Init /\ [][Next]_vars

\* C8: every comment body handed to updateComment or createComment contains
\* the sentinel, be it the diff report or a coverage-unavailable message.
C8_PublishedBodiesHoldSentinel ==
    \A i \in DOMAIN calls :
        /\ calls[i].body.kind \in {"diff", "unavailable"}
        /\ IncludesSentinel(calls[i].body)

C8_Witness ==
    /\ pc = "done"
    /\ Len(calls) = 1
    /\ calls[1].op = "createComment"
    /\ calls[1].body.kind = "diff"
    /\ calls[1].body.rows # <<>>
    /\ IncludesSentinel(calls[1].body)

\* The comments listed by a Bot whose body contains the sentinel.
BotSentinelComments ==
    {i \in DOMAIN comments :
        comments[i].userType = "Bot" /\ IncludesSentinel(comments[i].body)}

\* C9: the publishing step makes exactly one call, the only one of the run:
\* updateComment of the first listed comment of a Bot that contains the
\* sentinel if there is one, createComment otherwise; no other step calls.
C9_OneUpdateOrCreate ==
    [][IF pc \in {"publish", "publishUnavailable"}
       THEN /\ calls = <<>>
            /\ Len(calls') = 1
            /\ calls'[1].body = message
            /\ IF BotSentinelComments # {}
               THEN /\ calls'[1].op = "updateComment"
                    /\ calls'[1].id = comments[MinOf(BotSentinelComments)].id
               ELSE calls'[1].op = "createComment"
       ELSE calls' = calls]_vars

C9_Witness ==
    /\ pc = "done"
    /\ Len(comments) = 2
    /\ comments[1].userType = "Bot"
    /\ ~IncludesSentinel(comments[1].body)
    /\ Len(calls) = 1
    /\ calls[1].op = "updateComment"
    /\ calls[1].id = 2

\* Both listings have answered and at least one found no timestamp folder.
CoverageUnavailable ==
    /\ headTimestamp # "unlisted"
    /\ baseTimestamp = "none" \/ headTimestamp = "none"

BranchesWithoutReport ==
    {b \in {"base", "head"} :
        \/ b = "base" /\ baseTimestamp = "none"
        \/ b = "head" /\ headTimestamp = "none"}

\* C10: with a report unavailable the run downloads, parses and compares
\* nothing, is not marked failed, and ends having published once the message
\* that names the branches without a report.
C10_UnavailableShortCircuits ==
    CoverageUnavailable =>
        /\ nDownloads = 0 /\ nParses = 0 /\ nDiffs = 0
        /\ failed = ""
        /\ pc \in {"listCommentsUnavailable", "publishUnavailable", "done"}
        /\ message.kind = "unavailable"
        /\ message.noReport = BranchesWithoutReport
        /\ pc = "done" => Len(calls) = 1 /\ calls[1].body = message

C10_Witness ==
    /\ CoverageUnavailable
    /\ baseTimestamp # "none"
    /\ pc = "done"
    /\ Len(calls) = 1
    /\ calls[1].body.noReport = {"head"}

\* The messages of the errors met before the report is rendered.
EarlyErrors ==
    {"Invalid GCP credentials JSON",
     "This action can only be run on pull request events",
     "Failed to list files", "Failed to download file", "Invalid XML"}

\* C11: a step before the rendering that fails ends the run, marked failed
\* with the message of its error; at such an end no diff has been computed and
\* no comment has been created or updated.  Malformed XML always is such a
\* failure.
C11_EarlyFailureIsFatal ==
    [][/\ (pc = "start" /\ pc' = "done") =>
              failed' \in {"Invalid GCP credentials JSON",
                           "This action can only be run on pull request events"}
       /\ (pc \in {"listBase", "listHead"} /\ pc' = "done") =>
              failed' = "Failed to list files"
       /\ (pc \in {"downloadBase", "downloadHead"} /\ pc' = "done") =>
              failed' = "Failed to download file"
       /\ (pc \in {"parseBase", "parseHead"} /\ pc' = "done") => failed' = "Invalid XML"
       /\ (pc = "parseBase" /\ baseCoverage = MalformedDoc) => pc' = "done"
       /\ (pc = "parseHead" /\ headCoverage = MalformedDoc) => pc' = "done"
       /\ failed' \in EarlyErrors =>
              /\ pc' = "done"
              /\ nDiffs' = 0
              /\ calls' = <<>>
              /\ message' = NoBody]_vars

C11_Witness ==
    /\ pc = "done"
    /\ failed = "Invalid XML"
    /\ nDownloads = 2
    /\ nParses = 2
    /\ headCoverage = MalformedDoc
    /\ nDiffs = 0
    /\ calls = <<>>

\* The head coverage percentage, two decimals, read off the head document.
HeadLines == TotalLines(headCoverage.classes)

HeadHits == CoveredLines(headCoverage.classes)

HeadBelowThreshold ==
    /\ HeadLines > 0
    /\ (20000 * HeadHits + HeadLines) \div (2 * HeadLines) < 100 * minCoverage

RenderErrors ==
    {"Cannot read properties of undefined (reading 'classes')",
     "Cannot read properties of undefined (reading 'branches-valid')",
     "omitPatterns.some is not a function",
     "Cannot read properties of undefined (reading 'forEach')"}

\* C12: the run is marked failed for low coverage only after the report has
\* been published, and it is so marked whenever the head percentage is below
\* the minimum; the publishing step is taken whatever the coverage; a run
\* that is marked failed has met an error or has a head percentage below the
\* minimum.
C12_PublishedBeforeFailed ==
    [][/\ (failed' = BelowMinimumMessage /\ failed # BelowMinimumMessage) =>
              /\ Len(calls) = 1
              /\ calls' = calls
              /\ calls[1].body = message
              /\ message.kind = "diff"
              /\ HeadBelowThreshold
       /\ (pc = "threshold" /\ HeadBelowThreshold) => failed' = BelowMinimumMessage
       /\ pc = "publish" => (failed = "" /\ Len(calls') = 1 /\ pc' = "threshold")
       /\ failed' # "" =>
              \/ failed' \in EarlyErrors \cup RenderErrors
              \/ failed' = BelowMinimumMessage /\ HeadBelowThreshold']_vars

C12_Witness ==
    /\ pc = "done"
    /\ failed = BelowMinimumMessage
    /\ minCoverage = 80
    /\ Len(calls) = 1
    /\ calls[1].body.kind = "diff"

BaseLines == TotalLines(baseCoverage.classes)

BaseHits == CoveredLines(baseCoverage.classes)

\* The head line rate is less than the base line rate (both documents have lines).
DeltaNegative ==
    /\ BaseLines > 0
    /\ HeadLines > 0
    /\ HeadHits * BaseLines < BaseHits * HeadLines

\* C13: the Coverage row of a rendered report has the marker '-' exactly when
\* the coverage delta is negative or the head percentage is below the
\* minimum, and the marker '+' otherwise.
C13_CoverageRowMarker ==
    message.kind = "diff" =>
        message.overall.marker =
            IF DeltaNegative \/ HeadBelowThreshold THEN "-" ELSE "+"

C13_Witness ==
    /\ pc = "done"
    /\ Len(calls) = 1
    /\ calls[1].body.kind = "diff"
    /\ calls[1].body.overall.marker = "-"
    /\ ~DeltaNegative
    /\ HeadBelowThreshold

\* The trend rule applied to the file of a row: its change is negative or its
\* head coverage is below the minimum.
NegativeTrend(row) ==
    \/ row.entry.change.num < 0
    \/ row.entry.headCov.num < minCoverage * row.entry.headCov.den

\* C14: every row of a rendered report has the prefix '- ' when the file's
\* change is negative or its head coverage is below the minimum, and the
\* prefix '+ ' otherwise.
C14_RowMarkers ==
    message.kind = "diff" =>
        \A i \in DOMAIN message.rows :
            message.rows[i].prefix =
                IF NegativeTrend(message.rows[i]) THEN "- " ELSE "+ "

\* C14 for the rows of the files that have a base entry.
C14_KnownFileRowMarkers ==
    message.kind = "diff" =>
        \A i \in DOMAIN message.rows :
            ~message.rows[i].entry.isNew =>
                message.rows[i].prefix =
                    IF NegativeTrend(message.rows[i]) THEN "- " ELSE "+ "

HeadOnlyPaths == PathsOf(headCoverage) \ PathsOf(baseCoverage)

\* C15: in a rendered report every path with an entry in the head document
\* and none in the base document has one entry in changedFiles, flagged isNew,
\* and one row, with the prefix '+ '.
C15_NewFilesPositive ==
    message.kind = "diff" =>
        \A p \in HeadOnlyPaths :
            /\ Cardinality({i \in DOMAIN result.changedFiles :
                               result.changedFiles[i].filename = p}) = 1
            /\ \A i \in DOMAIN result.changedFiles :
                  result.changedFiles[i].filename = p => result.changedFiles[i].isNew
            /\ Cardinality({i \in DOMAIN message.rows : message.rows[i].filename = p}) = 1
            /\ \A i \in DOMAIN message.rows :
                  message.rows[i].filename = p =>
                      /\ message.rows[i].entry.isNew
                      /\ message.rows[i].prefix = "+ "

C15_Witness ==
    /\ pc = "done"
    /\ Len(calls) = 1
    /\ minCoverage = 80
    /\ HeadOnlyPaths = {UnixPath(<<"c.ts">>)}
    /\ \E i \in DOMAIN calls[1].body.rows :
          /\ calls[1].body.rows[i].filename = UnixPath(<<"c.ts">>)
          /\ calls[1].body.rows[i].prefix = "+ "
          /\ calls[1].body.rows[i].headCov = Fixed2(5000)

\* The line elements of a document that count as partial, as <<class, line>>.
PartialLines(doc) ==
    UNION {{<<i, j>> : j \in {k \in DOMAIN doc.classes[i].lines :
                                 LET line == doc.classes[i].lines[k]
                                 IN  /\ line.branch
                                     /\ line.condAttr = "condition_coverage"
                                     /\ Len(line.cond) = 2
                                     /\ line.cond[1] > 0
                                     /\ line.cond[1] < line.cond[2]}} :
           i \in DOMAIN doc.classes}

\* n / d rounded to the nearest integer, halves away from zero (d > 0).
Rounded(n, d) ==
    IF n < 0 THEN 0 - ((2 * (0 - n) + d) \div (2 * d)) ELSE (2 * n + d) \div (2 * d)

\* The Coverage delta read off the line entries, in hundredths of a percent.
ExpectedDelta ==
    IF BaseLines = 0 \/ HeadLines = 0 THEN NaNText
    ELSE Fixed2(Rounded(10000 * (HeadHits * BaseLines - BaseHits * HeadLines),
                        HeadLines * BaseLines))

\* C16: in the overall table of a rendered report the third column of Files,
\* Lines, Branches, Hits, Misses and Partials is the head value minus the base
\* value, and the Coverage delta is the head line rate minus the base line
\* rate as a percentage (31/31 against 21/31 gives -32.26).
C16_OverallDeltas ==
    /\ coverageDiffPercent([rateIsNaN |-> FALSE, lineRate |-> Frac(31, 31)],
                           [rateIsNaN |-> FALSE, lineRate |-> Frac(21, 31)])
          = Fixed2(0 - 3226)
    /\ message.kind = "diff" =>
          LET o == message.overall
          IN  /\ o.files = <<Len(baseCoverage.classes), Len(headCoverage.classes),
                             Len(headCoverage.classes) - Len(baseCoverage.classes)>>
              /\ o.lines = <<BaseLines, HeadLines, HeadLines - BaseLines>>
              /\ o.branches = <<baseCoverage.branchesValid, headCoverage.branchesValid,
                                headCoverage.branchesValid - baseCoverage.branchesValid>>
              /\ o.hits = <<BaseHits, HeadHits, HeadHits - BaseHits>>
              /\ o.misses = <<BaseLines - BaseHits, HeadLines - HeadHits,
                              (HeadLines - HeadHits) - (BaseLines - BaseHits)>>
              /\ o.partials = <<Cardinality(PartialLines(baseCoverage)),
                                Cardinality(PartialLines(headCoverage)),
                                Cardinality(PartialLines(headCoverage))
                                - Cardinality(PartialLines(baseCoverage))>>
              /\ o.diffPercent = ExpectedDelta

C16_Witness ==
    /\ pc = "done"
    /\ Len(calls) = 1
    /\ calls[1].body.kind = "diff"
    /\ calls[1].body.overall.files[3] = 1
    /\ calls[1].body.overall.lines[3] = 2
    /\ calls[1].body.overall.branches[3] = 2
    /\ calls[1].body.overall.misses[3] = 1
    /\ calls[1].body.overall.partials[3] = 1
    /\ calls[1].body.overall.diffPercent = Fixed2(0 - 3333)

\* Both documents were parsed, and one of them is in FlatStyle.
FlatStyleRun ==
    /\ nParses = 2
    /\ failed # "Invalid XML"
    /\ baseCoverage.style = "flat" \/ headCoverage.style = "flat"

\* C17: a run on a FlatStyle document completes like one on PackagedStyle
\* documents: with an omit configuration that is not a string, it ends having
\* published a diff report whose Files row counts the class elements.
C17_FlatStyleAccepted ==
    (FlatStyleRun /\ pc = "done" /\ coverageRcConfig.shape # "string") =>
        /\ failed \notin RenderErrors
        /\ Len(calls) = 1
        /\ calls[1].body.kind = "diff"
        /\ calls[1].body.overall.files[1] = Len(baseCoverage.classes)
        /\ calls[1].body.overall.files[2] = Len(headCoverage.classes)

\* What a run on a FlatStyle document does: the diff is computed, unless the
\* other document has no metrics, then countFiles throws, and the run ends
\* marked failed without a comment.
C17_FlatStyleFails ==
    (FlatStyleRun /\ pc = "done") =>
        /\ (getCoverageMetrics(baseCoverage).threw = ""
               /\ getCoverageMetrics(headCoverage).threw = "") => nDiffs = 1
        /\ failed \in RenderErrors
        /\ calls = <<>>

\* The PR-changed files that a pattern listed in the .coveragerc matches.
ListedMatch(file) == SomePattern(normalizePath(file), coverageRcFile.patterns)

\* C18: whichever way the .coveragerc lists its patterns under [run] omit,
\* the diff of the run returns and no PR-changed file that a listed pattern
\* matches is in uncoveredFiles.
C18_ListedPatternsApplied ==
    (coverageRcFile.patterns # <<>> /\ nDiffs = 1) =>
        /\ result.status = "returned"
        /\ failed # "omitPatterns.some is not a function"
        /\ \A i \in DOMAIN prChangedFiles :
              ListedMatch(prChangedFiles[i]) => normalizePath(prChangedFiles[i]) \notin Uncovered

\* C18 for the patterns written as "omit[] = pattern".
C18_ArrayPatternsApplied ==
    (coverageRcFile.form = "array" /\ nDiffs = 1) =>
        /\ result.status = "returned"
        /\ \A i \in DOMAIN prChangedFiles :
              ListedMatch(prChangedFiles[i]) => normalizePath(prChangedFiles[i]) \notin Uncovered

\* C19: without a .coveragerc, or with one that cannot be read or has no [run]
\* section, the configuration holds no omit value, the diff of the run
\* returns, and every PR-changed source file without a coverage entry is in
\* uncoveredFiles.
C19_NoOmitWithoutRunSection ==
    (coverageRcFile.form \in {"none", "unreadable", "noRun"} /\ pc # "start") =>
        /\ coverageRcConfig = NoConfig
        /\ failed # "omitPatterns.some is not a function"
        /\ nDiffs = 1 =>
              /\ result.status = "returned"
              /\ \A i \in DOMAIN prChangedFiles :
                    (/\ IsSourceFile(prChangedFiles[i])
                     /\ normalizePath(prChangedFiles[i])
                           \notin PathsOf(baseCoverage) \cup PathsOf(headCoverage))
                        => normalizePath(prChangedFiles[i]) \in Uncovered

C19_Witness ==
    /\ coverageRcFile.form = "noRun"
    /\ pc = "done"
    /\ failed = ""
    /\ Len(calls) = 1
    /\ \E i \in DOMAIN calls[1].body.uncovered :
          calls[1].body.uncovered[i] = UnixPath(<<"tests", "a.py">>)

\* The two documents hold the same files with the same hits on the same lines.
SameHitData ==
    /\ Len(baseCoverage.classes) = Len(headCoverage.classes)
    /\ \A i \in DOMAIN baseCoverage.classes :
          /\ baseCoverage.classes[i].filename = headCoverage.classes[i].filename
          /\ Len(baseCoverage.classes[i].lines) = Len(headCoverage.classes[i].lines)
          /\ \A j \in DOMAIN baseCoverage.classes[i].lines :
                /\ baseCoverage.classes[i].lines[j].number
                      = headCoverage.classes[i].lines[j].number
                /\ baseCoverage.classes[i].lines[j].hits
                      = headCoverage.classes[i].lines[j].hits

\* C20: the report rendered for two documents with the same hit data has no
\* file row, its diff has no changed file, and its Coverage delta is 0.00.
C20_IdenticalDocuments ==
    (message.kind = "diff" /\ SameHitData) =>
        /\ result.changedFiles = <<>>
        /\ message.rows = <<>>
        /\ message.overall.diffPercent = Fixed2(0)

\* C20 for documents that hold at least one line element.
C20_IdenticalWithLines ==
    (message.kind = "diff" /\ SameHitData /\ BaseLines > 0) =>
        /\ result.changedFiles = <<>>
        /\ message.rows = <<>>
        /\ message.overall.diffPercent = Fixed2(0)

\* What is rendered for identical documents without a line element: no file
\* row, and the text 'NaN' for the delta and for both percentages.
C20_IdenticalWithoutLines ==
    (message.kind = "diff" /\ SameHitData /\ BaseLines = 0) =>
        /\ message.rows = <<>>
        /\ message.overall.diffPercent = NaNText
        /\ message.overall.headPercent = NaNText

\* C21 as claimed: in a rendered report every entry flagged isNew records a
\* base coverage that is not the number 0, and its row does not show the base
\* percentage '0.00' that the row of a file with 0% in base shows.
C21_NewFileBaseAbsent ==
    message.kind = "diff" =>
        /\ \A i \in DOMAIN result.changedFiles :
              result.changedFiles[i].isNew => result.changedFiles[i].baseCov # Zero
        /\ \A i \in DOMAIN message.rows :
              message.rows[i].entry.isNew => message.rows[i].baseCov # toFixed(Zero)

\* C21: in a rendered report every entry flagged isNew, that is every entry
\* of a path without an entry in the base document, records the number 0 as
\* base coverage and its head coverage as change, and its row shows '0.00' as
\* base percentage; the isNew flag alone tells it from a file at 0% in base.
C21_NewFileBaseZero ==
    message.kind = "diff" =>
        /\ \A i \in DOMAIN result.changedFiles :
              LET entry == result.changedFiles[i]
              IN  /\ entry.isNew = (entry.filename \notin PathsOf(baseCoverage))
                  /\ entry.isNew =>
                        /\ entry.baseCov = Zero
                        /\ entry.change = entry.headCov
        /\ \A i \in DOMAIN message.rows :
              message.rows[i].entry.isNew =>
                  /\ message.rows[i].baseCov = Fixed2(0)
                  /\ message.rows[i].change = message.rows[i].headCov

C21_Witness ==
    /\ pc = "done"
    /\ Len(calls) = 1
    /\ UnixPath(<<"c.ts">>) \notin PathsOf(baseCoverage)
    /\ \E i \in DOMAIN calls[1].body.rows :
          /\ calls[1].body.rows[i].filename = UnixPath(<<"c.ts">>)
          /\ calls[1].body.rows[i].entry.isNew
          /\ calls[1].body.rows[i].entry.baseCov = Zero
          /\ calls[1].body.rows[i].baseCov = Fixed2(0)
          /\ calls[1].body.rows[i].headCov = Fixed2(5000)
          /\ calls[1].body.rows[i].change = Fixed2(5000)

(***************************************************************************)
(* SpecMetrics: the figures computed from one parsed document.             *)
(***************************************************************************)
MaxMetricLines == 2

\* The branch data a line element may carry.
BranchData ==
    {<<FALSE, "", <<>>>>, <<TRUE, "", <<>>>>,
     <<TRUE, "condition-coverage", <<1, 2>>>>,
     <<TRUE, "condition-coverage", <<50, 1, 2>>>>,
     <<TRUE, "condition_coverage", <<1, 2>>>>,
     <<TRUE, "condition_coverage", <<0, 2>>>>,
     <<TRUE, "condition_coverage", <<2, 2>>>>,
     <<TRUE, "condition_coverage", <<50, 1, 2>>>>,
     <<FALSE, "condition_coverage", <<1, 2>>>>}

MetricLines ==
    {PlainLine(1, h) : h \in HitValues}
    \cup {RunLine(1, 1, d[1], d[2], d[3]) : d \in BranchData}

\* The class elements that may follow the first one: the same file again,
\* with a line or without a lines child, or another file.
MoreClasses ==
    {<<>>,
     <<[filename |-> UnixPath(<<"a.py">>), lines |-> <<PlainLine(1, 1)>>]>>,
     <<[filename |-> UnixPath(<<"a.py">>), lines |-> <<>>]>>,
     <<[filename |-> UnixPath(<<"b.js">>), lines |-> <<PlainLine(1, 0)>>]>>}

\* The documents of SpecMetrics: of either style, with one or two class
\* elements, or in PackagedStyle without any.
MetricDocs ==
    {RunDoc(style, 0, <<[filename |-> UnixPath(pre \o <<"a.py">>), lines |-> lines]>> \o more) :
        style \in {"flat", "packaged"},
        pre \in {<<>>, <<"python_coverage">>},
        lines \in SeqsUpTo(MetricLines, MaxMetricLines),
        more \in MoreClasses}
    \cup {RunDoc("packaged", 0, <<>>)}

InitMetrics ==
    /\ IdleNormalize
    /\ IdleLines
    /\ IdleDiff
    /\ IdleRun
    /\ coverageData \in MetricDocs
    /\ docMetrics = NoMetrics
    /\ fileCount = NoCount
    /\ docFiles = <<>>
    /\ mSteps = 0
    /\ minCoverageInput \in MinCoverageInputs
    /\ threshold = NoThreshold

\* const baseMetrics = getCoverageMetrics(baseCoverage)
GetCoverageMetrics ==
    /\ mSteps = 0
    /\ docMetrics' = getCoverageMetrics(coverageData)
    /\ mSteps' = 1
    /\ UNCHANGED <<coverageData, fileCount, docFiles, minCoverageInput, threshold>>
    /\ UNCHANGED <<normVars, lineVars, diffVars, runVars>>

\* "Process base coverage" of getFilesWithCoverageChanges
ProcessFiles ==
    /\ mSteps = 1
    /\ docFiles' = ProcessCoverage(coverageData)
    /\ mSteps' = 2
    /\ UNCHANGED <<coverageData, docMetrics, fileCount, minCoverageInput, threshold>>
    /\ UNCHANGED <<normVars, lineVars, diffVars, runVars>>

\* countFiles(baseCoverage), as the Files row of the message calls it
CountFiles ==
    /\ mSteps = 2
    /\ fileCount' = countFiles(coverageData)
    /\ mSteps' = 3
    /\ UNCHANGED <<coverageData, docMetrics, docFiles, minCoverageInput, threshold>>
    /\ UNCHANGED <<normVars, lineVars, diffVars, runVars>>

\* Line 19, line 182 and lines 282-291: the minimum read from the min_coverage
\* input is compared with the coverage of the head document, for the marker of
\* the Coverage row (of a head that is not below its base) and for the failure.
CheckMinCoverage ==
    /\ mSteps = 3
    /\ threshold' = [minCoverage |-> MinCoverageOf(minCoverageInput),
                     failed |-> IF BelowMinimum(docMetrics, MinCoverageOf(minCoverageInput))
                                THEN BelowMinimumMessage ELSE "",
                     marker |-> CoverageMarker(docMetrics, docMetrics,
                                               MinCoverageOf(minCoverageInput))]
    /\ mSteps' = 4
    /\ UNCHANGED <<coverageData, docMetrics, fileCount, docFiles, minCoverageInput>>
    /\ UNCHANGED <<normVars, lineVars, diffVars, runVars>>

NextMetrics == GetCoverageMetrics \/ ProcessFiles \/ CountFiles \/ CheckMinCoverage

SpecMetrics == InitMetrics /\ [][NextMetrics]_vars

\* C22: the statistics getCoverageMetrics returns for a document of either
\* style satisfy hits + misses = lines, lines being the number of the line
\* elements of the document, also when hits attributes are not numeric.
C22_HitsPlusMissesIsLines ==
    mSteps >= 1 =>
        /\ docMetrics.threw = ""
        /\ coverageData.style \in {"flat", "packaged"}
        /\ docMetrics.hits + docMetrics.misses = docMetrics.lines
        /\ docMetrics.lines = TotalLines(coverageData.classes)

C22_Witness ==
    /\ mSteps >= 1
    /\ coverageData.style = "flat"
    /\ \E i \in DOMAIN coverageData.classes[1].lines :
          coverageData.classes[1].lines[i].hits = NaN
    /\ docMetrics.lines = 3
    /\ docMetrics.hits = 2
    /\ docMetrics.misses = 1

\* The document matches neither dialect: its root has no classes and no
\* packages node.
NeitherDialect(doc) == doc.style \in {"neither", "foreign"}

\* Both documents were parsed, one of them matches neither dialect, and the
\* run is over; FlatStyle documents and an omit value written on the line of
\* "omit =" (C17, C18) are left aside.
NeitherDialectRun ==
    /\ pc = "done"
    /\ nParses = 2
    /\ failed # "Invalid XML"
    /\ NeitherDialect(baseCoverage) \/ NeitherDialect(headCoverage)
    /\ baseCoverage.style # "flat"
    /\ headCoverage.style # "flat"
    /\ coverageRcFile.form # "oneLine"

\* C23: a run on a document that matches neither dialect, with or without
\* root attributes, has warned about it, has not failed with an error of the
\* rendering, and has published a diff report in which the document counts
\* zero files and brings no file row.
C23_NeitherDialectReported ==
    NeitherDialectRun =>
        /\ "Error printing file statistics" \in warnings
        /\ failed \notin RenderErrors
        /\ Len(calls) = 1
        /\ calls[1].body.kind = "diff"
        /\ NeitherDialect(baseCoverage) => calls[1].body.overall.files[1] = 0
        /\ NeitherDialect(headCoverage) => calls[1].body.overall.files[2] = 0
        /\ (NeitherDialect(baseCoverage) /\ NeitherDialect(headCoverage)) =>
              calls[1].body.rows = <<>>

\* What such a run does.  With a coverage root that has attributes the report
\* is published, the document counting zero files, and nothing is warned;
\* without root attributes, or without a coverage root, getCoverageMetrics
\* throws and the run ends marked failed, without a comment.
C23_NeitherDialectRuns ==
    NeitherDialectRun =>
        IF baseCoverage.attrs /\ headCoverage.attrs
        THEN /\ "Error printing file statistics" \notin warnings
             /\ failed \notin RenderErrors
             /\ Len(calls) = 1
             /\ calls[1].body.kind = "diff"
             /\ NeitherDialect(baseCoverage) => calls[1].body.overall.files[1] = 0
             /\ NeitherDialect(headCoverage) => calls[1].body.overall.files[2] = 0
        ELSE /\ failed \in {"Cannot read properties of undefined (reading 'classes')",
                            "Cannot read properties of undefined (reading 'branches-valid')"}
             /\ calls = <<>>
             /\ nDiffs = 0
             /\ ("Error printing file statistics" \in warnings)
                   = (baseCoverage.style = "foreign" \/ headCoverage.style = "foreign")

\* The document holds a line element whose hits or number attribute is not
\* numeric.
NonNumericLine(doc) ==
    \E i \in DOMAIN doc.classes :
        \E j \in DOMAIN doc.classes[i].lines :
            doc.classes[i].lines[j].hits = NaN \/ doc.classes[i].lines[j].number = NaN

\* C24: a run that has parsed a document with a line element whose hits or
\* number attribute is not numeric has ended with an error, without computing
\* a diff or publishing a comment: the line is in no statistic and no report.
C24_NonNumericAborts ==
    (/\ pc \notin {"parseBase", "parseHead"}
     /\ nParses = 2
     /\ NonNumericLine(baseCoverage) \/ NonNumericLine(headCoverage)) =>
        /\ pc = "done"
        /\ failed \in EarlyErrors \cup RenderErrors
        /\ nDiffs = 0
        /\ calls = <<>>
        /\ message = NoBody

\* What is reported for a head document with the lines hits="x" and
\* number="y" hits="0" in b.js: both are counted as lines and as misses, b.js
\* is at 0 of 2 lines, and NaN is its missing line.
C24_NonNumericCounted ==
    (message.kind = "diff" /\ NonNumericLine(headCoverage)) =>
        /\ message.overall.lines[2] = 2
        /\ message.overall.hits[2] = 0
        /\ message.overall.misses[2] = 2
        /\ \A i \in DOMAIN message.rows :
              message.rows[i].filename = UnixPath(<<"b.js">>) =>
                  /\ message.rows[i].headCov = Fixed2(0)
                  /\ message.rows[i].entry.missingLines = <<NumTok(NaN)>>

\* The line elements of the document, as <<class, line>>, that have
\* branch="true" and, in the attribute of the given name, a value N/M with
\* 0 < N < M.
PartialBranchLines(doc, attr) ==
    {p \in UNION {{<<i, j>> : j \in DOMAIN doc.classes[i].lines} : i \in DOMAIN doc.classes} :
        LET line == doc.classes[p[1]].lines[p[2]]
        IN  /\ line.branch
            /\ line.condAttr = attr
            /\ Len(line.cond) = 2
            /\ 0 < line.cond[1]
            /\ line.cond[1] < line.cond[2]}

\* C25: the partials of a document are the number of its line elements with
\* branch="true" and a condition-coverage value N/M with 0 < N < M.
C25_PartialsCounted ==
    mSteps >= 1 =>
        docMetrics.partials
            = Cardinality(PartialBranchLines(coverageData, "condition-coverage"))

\* What is counted: the line elements with branch="true" and such a value in
\* an attribute named condition_coverage; a line with N = 0 or N = M, or
\* without branch="true", is not counted, and neither is any value of
\* condition-coverage.
C25_UnderscoreAttributeCounted ==
    mSteps >= 1 =>
        docMetrics.partials
            = Cardinality(PartialBranchLines(coverageData, "condition_coverage"))

\* The report filenames that have an entry in a coverage map.
ReportFilenames ==
    {baseCoverage.classes[i].filename : i \in EntryIndices(baseCoverage)}
    \cup {headCoverage.classes[i].filename : i \in EntryIndices(headCoverage)}

\* The PR-changed file and a report filename differ only by separators and by
\* the prefixes python_coverage/, src/ and ./, each stripped at most once.
SameFileAsReported(file) ==
    \E reported \in ReportFilenames :
        normalizedFilename(reported) = normalizedFilename(file)

\* C26: a PR-changed file that differs from the filename of a report entry
\* only by separators and by the prefixes python_coverage/, src/ and ./ is the
\* same file as that entry: it is not listed in uncoveredFiles, under any of
\* its names.
C26_OneNormalizeIsTheKey ==
    (dSteps >= 1 /\ result.status = "returned") =>
        \A i \in DOMAIN prChangedFiles :
            SameFileAsReported(prChangedFiles[i]) =>
                /\ prChangedFiles[i] \notin Uncovered
                /\ normalizePath(prChangedFiles[i]) \notin Uncovered
                /\ normalizedFilename(prChangedFiles[i]) \notin Uncovered

\* What the code matches on: the names with python_coverage/ stripped.  A
\* PR-changed file whose name so stripped is the key of a report entry is not
\* listed.
C26_PythonCoveragePrefixIsTheKey ==
    (dSteps >= 1 /\ result.status = "returned") =>
        \A i \in DOMAIN prChangedFiles :
            normalizePath(prChangedFiles[i]) \in PathsOf(baseCoverage) \cup PathsOf(headCoverage)
                => normalizePath(prChangedFiles[i]) \notin Uncovered

\* The operations of lines 82-150 that run() has issued and is waiting for:
\* each is awaited where it is called, so it is the one at the position of
\* run().
Pending ==
    IF pc \in {"listBase", "listHead", "downloadBase", "downloadHead",
               "parseBase", "parseHead"}
    THEN {pc} ELSE {}

\* C27 as claimed: while run() waits for the listing, the download or the
\* parse of the base document, the same operation of the head document has
\* been issued too; and a run that failed in one of them has computed no diff.
C27_FetchesConcurrent ==
    /\ "listBase" \in Pending => "listHead" \in Pending
    /\ "downloadBase" \in Pending => "downloadHead" \in Pending
    /\ "parseBase" \in Pending => "parseHead" \in Pending
    /\ failed \in EarlyErrors => nDiffs = 0

\* C27: the operations are issued one at a time, base before head: the head
\* listing is issued when the base listing has answered, the head download
\* when the base document has been downloaded, the head parse when the base
\* document has been parsed; and a run that failed in one of them has ended
\* without a diff and without a comment.
C27_FetchesSequential ==
    /\ Cardinality(Pending) <= 1
    /\ pc = "listBase" => (baseTimestamp = "unlisted" /\ headTimestamp = "unlisted")
    /\ pc = "listHead" => (baseTimestamp # "unlisted" /\ headTimestamp = "unlisted")
    /\ pc = "downloadBase" => nDownloads = 0
    /\ pc = "downloadHead" => (nDownloads = 1 /\ baseCoverage \in RunDocs)
    /\ pc = "parseBase" => (nDownloads = 2 /\ nParses = 0 /\ headCoverage \in RunDocs)
    /\ pc = "parseHead" => (nParses = 1 /\ baseCoverage # MalformedDoc)
    /\ nDownloads > 0 => BothAvailable(baseTimestamp, headTimestamp)
    /\ failed \in EarlyErrors =>
          /\ pc = "done"
          /\ nDiffs = 0
          /\ calls = <<>>

C27_Witness ==
    /\ pc = "parseHead"
    /\ nParses = 1
    /\ nDownloads = 2
    /\ baseCoverage # headCoverage
    /\ headCoverage = MalformedDoc

\* C28: the Files figure of a document, countFiles, is the number of entries
\* of the map of files built from it: a class element without a lines child
\* is in neither, two class elements whose filenames normalize to one path
\* are one file.
C28_FilesIsMapSize ==
    mSteps = 3 =>
        /\ ~fileCount.threw
        /\ fileCount.count = Len(docFiles)

\* What countFiles returns for a PackagedStyle document: the number of its
\* class elements, those without a lines child and those of a path already
\* seen included.  It is the size of the map when every class element has
\* lines and a path of its own.
C28_FilesIsClassElements ==
    (mSteps = 3 /\ coverageData.style = "packaged") =>
        /\ ~fileCount.threw
        /\ fileCount.count = Len(coverageData.classes)
        /\ fileCount.count >= Len(docFiles)
        /\ (/\ \A i \in DOMAIN coverageData.classes : coverageData.classes[i].lines # <<>>
            /\ \A i, j \in DOMAIN coverageData.classes :
                  normalizePath(coverageData.classes[i].filename)
                     = normalizePath(coverageData.classes[j].filename) => i = j)
              => fileCount.count = Len(docFiles)

\* C30: the effective minimum is the number supplied as min_coverage for
\* every supplied number v >= 0, and a supplied 0 leaves the run unfailed and
\* the Coverage row unmarked; it is 80 only when the input is absent or is
\* not a number.
C30_ThresholdIsTheInput ==
    mSteps = 4 =>
        /\ parseFloat(minCoverageInput) # NaN =>
              threshold.minCoverage = parseFloat(minCoverageInput)
        /\ parseFloat(minCoverageInput) = 0 =>
              (threshold.failed = "" /\ threshold.marker = "+")
        /\ parseFloat(minCoverageInput) = NaN => threshold.minCoverage = 80

\* What line 19 computes: the number supplied when it is positive, 80 when
\* the input is absent, not a number or 0; the failure and the marker follow
\* that minimum.
C30_ZeroIsTheDefault ==
    mSteps = 4 =>
        /\ parseFloat(minCoverageInput) > 0 =>
              threshold.minCoverage = parseFloat(minCoverageInput)
        /\ parseFloat(minCoverageInput) \in {NaN, 0} => threshold.minCoverage = 80
        /\ (threshold.failed = BelowMinimumMessage)
              = (/\ docMetrics.lines > 0
                 /\ 100 * docMetrics.hits < threshold.minCoverage * docMetrics.lines)
        /\ (threshold.marker = "-") = (threshold.failed = BelowMinimumMessage)

(***************************************************************************)
(* SpecRuns: runs of the action that follow one another on one pull        *)
(* request.  A run is a process of its own; the comments of the pull       *)
(* request are what one run leaves to the next.                            *)
(***************************************************************************)
MaxRuns == 3

RerunBase ==
    RunDoc("packaged", 0,
        <<[filename |-> UnixPath(<<"a.py">>), lines |-> <<PlainLine(1, 1)>>]>>)

\* The head documents of SpecRuns: the base document, and one with a file
\* more and a line that is not covered.
RerunHeads ==
    {RerunBase,
     RunDoc("packaged", 2,
        <<[filename |-> UnixPath(<<"a.py">>),
           lines |-> <<RunLine(1, 1, TRUE, "condition_coverage", <<1, 2>>),
                       PlainLine(2, 0)>>],
          [filename |-> UnixPath(<<"b.js">>), lines |-> <<PlainLine(1, 1)>>]>>)}

AccountTypes == {"Bot", "User"}

InitRuns ==
    /\ IdleNormalize
    /\ IdleMetrics
    /\ IdleLines
    /\ IdleDiff
    /\ pc = "start"
    /\ failed = ""
    /\ baseTimestamp = "unlisted"
    /\ headTimestamp = "unlisted"
    /\ message = NoBody
    /\ botComment = NoComment
    /\ comments \in CommentLists
    /\ calls = <<>>
    /\ nDownloads = 0
    /\ nParses = 0
    /\ nDiffs = 0
    /\ minCoverage = 80
    /\ coverageRcFile = NoFile
    /\ warnings = {}
    /\ authorType \in AccountTypes

\* Lines 17-98 and 132-248 of a run that reaches one of its two listings of
\* the comments: the timestamps are found, and either a report is missing and
\* the message says so, or both documents are read and the report is written.
RunToMessage ==
    /\ pc = "start"
    /\ \E baseTs \in {"none", "20240315_120000"},
          headTs \in {"none", "20240316_090000"}, head \in RerunHeads :
          /\ baseTimestamp' = baseTs
          /\ headTimestamp' = headTs
          /\ IF BothAvailable(baseTs, headTs)
             THEN LET diff == getFilesWithCoverageChanges(RerunBase, head, <<>>,
                                                          coverageRcConfig)
                  IN  /\ baseCoverage' = RerunBase
                      /\ headCoverage' = head
                      /\ message' = DiffMessage(RerunBase, head, diff.changedFiles,
                                                diff.uncoveredFiles, minCoverage)
                      /\ pc' = "listComments"
             ELSE /\ message' = UnavailableMessage(baseTs, headTs)
                  /\ pc' = "listCommentsUnavailable"
                  /\ UNCHANGED <<baseCoverage, headCoverage>>
    /\ UNCHANGED <<prChangedFiles, coverageRcConfig, result, rows, dSteps>>
    /\ UNCHANGED <<failed, botComment, comments, calls, nDownloads, nParses, nDiffs,
                   minCoverage, coverageRcFile, warnings, authorType>>
    /\ UNCHANGED <<metricVars, normVars, lineVars>>

\* The workflow starts the action again on the same pull request: the new
\* process has nothing of the last one but the comments it left.
NextRun ==
    /\ pc = "done"
    /\ Len(calls) < MaxRuns
    /\ pc' = "start"
    /\ failed' = ""
    /\ baseTimestamp' = "unlisted"
    /\ headTimestamp' = "unlisted"
    /\ message' = NoBody
    /\ botComment' = NoComment
    /\ baseCoverage' = NeitherDoc
    /\ headCoverage' = NeitherDoc
    /\ UNCHANGED <<prChangedFiles, coverageRcConfig, result, rows, dSteps>>
    /\ UNCHANGED <<comments, calls, nDownloads, nParses, nDiffs, minCoverage,
                   coverageRcFile, warnings, authorType>>
    /\ UNCHANGED <<metricVars, normVars, lineVars>>

NextRuns ==
    \/ RunToMessage
    \/ ListCommentsUnavailable
    \/ PublishUnavailable
    \/ ListComments
    \/ Publish
    \/ CheckThreshold
    \/ NextRun

SpecRuns == InitRuns /\ [][NextRuns]_vars

\* The calls of the runs so far that created a comment.
Creations == {i \in DOMAIN calls : calls[i].op = "createComment"}

\* C29: over the runs of the action on one pull request, each publishing a
\* diff report or a coverage-unavailable message with a token whose comments
\* are of type Bot, at most one comment is created, by the first run only;
\* every later run updates that comment, and the runs that update, update
\* one and the same comment, which carries the sentinel.
C29_OneSentinelComment ==
    authorType = "Bot" =>
        /\ Cardinality(Creations) <= 1
        /\ Creations \subseteq {1}
        /\ \A i \in Creations, j \in DOMAIN calls :
              j > i => (calls[j].op = "updateComment" /\ calls[j].id = Len(comments))
        /\ \A i, j \in DOMAIN calls :
              (calls[i].op = "updateComment" /\ calls[j].op = "updateComment")
                 => calls[i].id = calls[j].id
        /\ \A j \in DOMAIN calls :
              calls[j].op = "updateComment" =>
                 \E k \in DOMAIN comments :
                    /\ comments[k].id = calls[j].id
                    /\ comments[k].userType = "Bot"
                    /\ IncludesSentinel(comments[k].body)
                    /\ j = Len(calls) => comments[k].body = calls[j].body

C29_Witness ==
    /\ authorType = "Bot"
    /\ pc = "done"
    /\ Len(calls) = 3
    /\ calls[1].op = "createComment"
    /\ calls[1].body.kind = "unavailable"
    /\ calls[2].op = "updateComment"
    /\ calls[2].body.kind = "diff"
    /\ calls[3].op = "updateComment"
    /\ calls[3].id = Len(comments)
    /\ Len(comments) = 2
    /\ comments[1].userType = "User"
    /\ IncludesSentinel(comments[1].body)

\* The proviso of C29 is needed: with a token of a user account, and no
\* comment of a Bot with the sentinel on the pull request, every run creates
\* a comment.
C29_UserTokenAlwaysCreates ==
    (/\ authorType = "User"
     /\ \A k \in DOMAIN comments :
           ~(comments[k].userType = "Bot" /\ IncludesSentinel(comments[k].body)))
        => \A j \in DOMAIN calls : calls[j].op = "createComment"

(***************************************************************************)
(* SpecNormalize: a normaliser applied to its own output.                  *)
(***************************************************************************)
MaxApply == 2

InitNormalize ==
    /\ IdleMetrics
    /\ IdleLines
    /\ IdleDiff
    /\ IdleRun
    /\ nIn \in PathDomain
    /\ nFn \in {"normalizePath", "normalizedFilename"}
    /\ nFirst = NoPath
    /\ nOut = nIn
    /\ nSteps = 0

Normalize ==
    /\ nSteps < MaxApply
    /\ nOut' = ApplyNormalizer(nFn, nOut)
    /\ nFirst' = IF nSteps = 0 THEN ApplyNormalizer(nFn, nOut) ELSE nFirst
    /\ nSteps' = nSteps + 1
    /\ UNCHANGED <<nIn, nFn>>
    /\ UNCHANGED <<metricVars, lineVars, diffVars, runVars>>

NextNormalize == Normalize

SpecNormalize == InitNormalize /\ [][NextNormalize]_vars

\* C4: normalize(normalize(p)) = normalize(p) for every path p, a path that
\* starts with a repeated known prefix included.
C4_Idempotent == nSteps >= 2 => nOut = nFirst

====
